---- MODULE Spec2Model ----
(***************************************************************************)
(* A model of the typed declaration model and definition-file generator of *)
(* mlua-extras: the Type algebra and its union composition, the class and  *)
(* module collectors, the definition builder and the definition writer.    *)
(***************************************************************************)
EXTENDS Naturals, Sequences, FiniteSets, TLC

VARIABLES
    \* union composition (typed/mod.rs, impl BitOr for Type)
    lhs, rhs, third, upc, r_ab, r_bc, r_left, r_right, r_self,
    \* the class collector (typed/class/standard.rs, TypedClassBuilder)
    cls, phase, ncalls,
    \* the definition builder and writer (typed/generator)
    entries, gpc, definition, idx, name_map, file, result,
    \* the module collector (typed/module.rs, TypedModuleBuilder)
    nests, root, stack, mpc, built, merr,
    \* generation passes (typed/generator/type_file.rs, DefinitionFileGenerator)
    definitions, pass, it, wr, outs,
    \* the package table of a Lua state (extras/mod.rs, LuaExtras for Lua)
    package, path_calls

uvars == <<lhs, rhs, third, upc, r_ab, r_bc, r_left, r_right, r_self>>

cvars == <<cls, phase, ncalls>>

gvars == <<entries, gpc, definition, idx, name_map, file, result>>

mvars == <<nests, root, stack, mpc, built, merr>>

pvars == <<definitions, pass, it, wr, outs>>

lvars == <<package, path_calls>>

vars == <<uvars, cvars, gvars, mvars, pvars, lvars>>

(***************************************************************************)
(* Bounds of the model.                                                    *)
(***************************************************************************)
\* longest member list of a Union operand drawn in InitUnion
MaxMembers == 2

\* registrations (add_* calls) made on one class collector
MaxCalls == 2

\* entries pushed on one definition builder
MaxEntries == 2

\* add_module calls made by the add_fields of one module type
MaxChildren == 1

(***************************************************************************)
(* The Type algebra: a shape is a record with a tag.                       *)
(***************************************************************************)
Single(n) == [tag |-> "Single", name |-> n]

Union(ts) == [tag |-> "Union", items |-> ts]

Array(t) == [tag |-> "Array", items |-> <<t>>]

\* Vec::contains
Contains(types, ty) == \E i \in 1..Len(types) : types[i] = ty

\* the loop of the (Union, Union) arm: push every member of other_types that
\* the growing list does not hold yet
RECURSIVE PushMissing(_, _)
PushMissing(types, other_types) ==
    IF other_types = <<>> THEN types
    ELSE LET ty == Head(other_types)
         IN PushMissing(IF Contains(types, ty) THEN types ELSE Append(types, ty),
                        Tail(other_types))

BitOrNoEqualityTest(self, other) ==
    IF self.tag = "Union" /\ other.tag = "Union"
    THEN Union(PushMissing(self.items, other.items))
    ELSE IF self.tag = "Union"
    THEN Union(IF Contains(self.items, other) THEN self.items
               ELSE Append(self.items, other))
    ELSE Union(<<self, other>>)

\* impl BitOr for Type: self | other
BitOr(self, other) ==
    IF self.tag = "Union" /\ other.tag = "Union"
    THEN Union(PushMissing(self.items, other.items))
    ELSE IF self.tag = "Union"
    THEN Union(IF Contains(self.items, other) THEN self.items
               ELSE Append(self.items, other))
    ELSE IF self = other THEN self
    ELSE Union(<<self, other>>)

\* impl Typed for Option<T>: T | nil, built directly as a two-member Union
OptionTy(t) == Union(<<t, Single("nil")>>)

(***************************************************************************)
(* Union composition applied to operands drawn from a bounded set.         *)
(***************************************************************************)
Atoms == {Single("string"), Single("integer"), Single("nil")}

SeqsUpTo(S, n) == UNION {[1..k -> S] : k \in 0..n}

\* unions as Type::union / the union! macro build them: any member list
DirectUnions == {Union(ts) : ts \in SeqsUpTo(Atoms, MaxMembers)}

OperandShapes ==
    Atoms \cup DirectUnions
          \cup {Array(Single("string")), OptionTy(OptionTy(Single("string")))}

None == [tag |-> "None"]

\* the variables of a component that a specification does not run
IdleUnion ==
    /\ lhs = None /\ rhs = None /\ third = None /\ upc = "idle"
    /\ r_ab = None /\ r_bc = None /\ r_left = None /\ r_right = None
    /\ r_self = None

IdleClass == cls = None /\ phase = "idle" /\ ncalls = 0

IdleModule ==
    /\ nests = <<>> /\ root = "" /\ stack = <<>> /\ mpc = "idle"
    /\ built = None /\ merr = ""

IdleGen ==
    /\ entries = <<>> /\ gpc = "idle" /\ definition = <<>> /\ idx = 0
    /\ name_map = <<>> /\ file = <<>> /\ result = ""

IdlePasses == definitions = <<>> /\ pass = 0 /\ it = 0 /\ wr = <<>> /\ outs = <<>>

IdleLua == package = <<>> /\ path_calls = 0

InitUnion ==
    /\ IdleClass /\ IdleGen /\ IdleModule /\ IdlePasses /\ IdleLua
    /\ lhs \in OperandShapes
    /\ rhs \in OperandShapes
    /\ third \in OperandShapes
    /\ upc = "operands"
    /\ r_ab = None /\ r_bc = None /\ r_left = None /\ r_right = None
    /\ r_self = None

\* lhs | rhs, rhs | third and lhs | lhs
ComposePairs ==
    /\ upc = "operands"
    /\ r_ab' = BitOr(lhs, rhs)
    /\ r_bc' = BitOr(rhs, third)
    /\ r_self' = BitOr(lhs, lhs)
    /\ upc' = "pairs"
    /\ UNCHANGED <<lhs, rhs, third, r_left, r_right, cvars, gvars, mvars, pvars, lvars>>

\* (lhs | rhs) | third and lhs | (rhs | third)
ComposeTriples ==
    /\ upc = "pairs"
    /\ r_left' = BitOr(r_ab, third)
    /\ r_right' = BitOr(lhs, r_bc)
    /\ upc' = "done"
    /\ UNCHANGED <<lhs, rhs, third, r_ab, r_bc, r_self, cvars, gvars, mvars, pvars, lvars>>

NextUnion == ComposePairs \/ ComposeTriples

SpecUnion == InitUnion /\ [][NextUnion]_vars

\* the members of a shape: a union's list, or the shape alone
Members(t) == IF t.tag = "Union" THEN t.items ELSE <<t>>

MemberSet(t) == {Members(t)[i] : i \in 1..Len(Members(t))}

IsFlat(t) == t.tag = "Union" => \A i \in 1..Len(t.items) : t.items[i].tag # "Union"

NoDup(ts) == \A i, j \in 1..Len(ts) : ts[i] = ts[j] => i = j

IsNormal(t) == t.tag = "Union" => (IsFlat(t) /\ NoDup(t.items))

\* C3: (A|B)|C and A|(B|C) have the same deduplicated set of members
C3_Associative == upc = "done" => MemberSet(r_left) = MemberSet(r_right)

\* C4: A|A is structurally equal to A, for a union and for a non-union A
C4_Idempotent == upc \in {"pairs", "done"} => r_self = lhs

C4_Witness ==
    /\ upc = "done"
    /\ lhs.tag = "Union" /\ Len(lhs.items) = 2 /\ lhs.items[1] = lhs.items[2]
    /\ r_self = lhs

RECURSIVE Missing(_, _)
Missing(ts, present) ==
    IF ts = <<>> THEN <<>>
    ELSE IF Contains(present, Head(ts)) THEN Missing(Tail(ts), present)
    ELSE <<Head(ts)>> \o Missing(Tail(ts), present)

\* C5: for normal operands a and b, a|b is normal and its members are a's
\* members in order followed by the members of b not already present
C5_FlatDedupOrdered ==
    (upc \in {"pairs", "done"} /\ IsNormal(lhs) /\ IsNormal(rhs))
        => /\ IsNormal(r_ab)
           /\ Members(r_ab) = Members(lhs) \o Missing(Members(rhs), Members(lhs))

(***************************************************************************)
(* The class collector: TypedClassBuilder.                                 *)
(* An Option is a sequence of at most one element; a documentation text is *)
(* the sequence of its lines, so that joining two texts with a line break  *)
(* is their concatenation.                                                 *)
(***************************************************************************)
NoDoc == <<>>

Some(v) == <<v>>

Docs == {<<"first">>, <<"second">>}

Keys == {"name", "size"}

FieldTypes == {Single("string"), Single("integer")}

\* Param { name, doc, ty } and Return { doc, ty }
Param(n, d, t) == [name |-> n, doc |-> d, ty |-> t]

Return(d, t) == [doc |-> d, ty |-> t]

\* A::get_types_as_params() and R::get_types_as_returns() of the one call
\* signature the model registers: fn(string) -> integer
PlainParams == <<Param(NoDoc, NoDoc, Single("string"))>>

PlainReturns == <<Return(NoDoc, Single("integer"))>>

\* what a generator callback may leave in the FunctionBuilder: the derived
\* signature, or the same with parameter 0 renamed and documented
Generated ==
    {[params |-> PlainParams, returns |-> PlainReturns],
     [params |-> <<Param(Some("who"), Some(<<"the one">>), Single("string"))>>,
      returns |-> PlainReturns]}

EmptyMap == <<>>

\* TypedClassBuilder::default()
DefaultClass ==
    [type_doc |-> NoDoc, queued_doc |-> NoDoc,
     fields |-> EmptyMap, static_fields |-> EmptyMap, meta_fields |-> EmptyMap,
     methods |-> EmptyMap, meta_methods |-> EmptyMap,
     functions |-> EmptyMap, meta_functions |-> EmptyMap]

\* BTreeMap::insert
Insert(map, key, value) == (key :> value) @@ map

HasKey(map, key) == key \in DOMAIN map

MergeFieldDroppingQueue(map, key, ty, queued) ==
    IF HasKey(map, key)
    THEN Insert(map, key, [ty |-> BitOr(map[key].ty, ty), doc |-> queued])
    ELSE Insert(map, key, [ty |-> ty, doc |-> NoDoc])

\* entry(key).and_modify(|v| { v.doc = queued_doc.take(); v.ty = v.ty | ty })
\*           .or_insert(Field { ty, doc: queued_doc.take() })
MergeField(map, key, ty, queued) ==
    IF HasKey(map, key)
    THEN Insert(map, key, [ty |-> BitOr(map[key].ty, ty), doc |-> queued])
    ELSE Insert(map, key, [ty |-> ty, doc |-> queued])

\* the get_set variants: v.ty | A::ty() | R::ty(), or A::ty() | R::ty() when new
MergeFieldPair(map, key, a, r, queued) ==
    IF HasKey(map, key)
    THEN Insert(map, key, [ty |-> BitOr(BitOr(map[key].ty, a), r), doc |-> queued])
    ELSE Insert(map, key, [ty |-> BitOr(a, r), doc |-> queued])

\* Func { params, returns, doc: queued_doc.take() }
Func(params, returns, queued) ==
    [params |-> params, returns |-> returns, doc |-> queued]

InitClass ==
    /\ IdleUnion /\ IdleGen /\ IdleModule /\ IdlePasses /\ IdleLua
    /\ cls = DefaultClass
    /\ phase = "add_documentation"
    /\ ncalls = 0

\* TypedDataDocumentation::add
AddDocumentation(d) ==
    /\ phase = "add_documentation"
    /\ ncalls < MaxCalls
    /\ cls' = [cls EXCEPT !.type_doc = IF @ = NoDoc THEN Some(d)
                                       ELSE Some(@[1] \o d)]
    /\ ncalls' = ncalls + 1
    /\ UNCHANGED <<phase, uvars, gvars, mvars, pvars, lvars>>

\* TypedClassBuilder::new: T::add_documentation, T::add_fields and
\* T::add_methods run in this order on the same collector
EndPhase ==
    /\ phase \in {"add_documentation", "add_fields", "add_methods"}
    /\ phase' = CASE phase = "add_documentation" -> "add_fields"
                  [] phase = "add_fields" -> "add_methods"
                  [] OTHER -> "built"
    /\ UNCHANGED <<cls, ncalls, uvars, gvars, mvars, pvars, lvars>>

\* TypedDataFields::document and TypedDataMethods::document
Document(d) ==
    /\ phase \in {"add_fields", "add_methods"}
    /\ cls' = [cls EXCEPT !.queued_doc = Some(d)]
    /\ UNCHANGED <<phase, ncalls, uvars, gvars, mvars, pvars, lvars>>

FieldCall(map, merged) ==
    /\ phase = "add_fields"
    /\ ncalls < MaxCalls
    /\ cls' = [cls EXCEPT ![map] = merged, !.queued_doc = NoDoc]
    /\ ncalls' = ncalls + 1
    /\ UNCHANGED <<phase, uvars, gvars, mvars, pvars, lvars>>

add_field(k, v) ==
    FieldCall("static_fields", MergeField(cls.static_fields, k, v, cls.queued_doc))

add_field_function_set(k, a) ==
    FieldCall("static_fields", MergeField(cls.static_fields, k, a, cls.queued_doc))

add_field_function_get(k, r) ==
    FieldCall("static_fields", MergeField(cls.static_fields, k, r, cls.queued_doc))

add_field_function_get_set(k, r, a) ==
    FieldCall("static_fields",
              MergeFieldPair(cls.static_fields, k, a, r, cls.queued_doc))

add_field_method_set(k, a) ==
    FieldCall("fields", MergeField(cls.fields, k, a, cls.queued_doc))

add_field_method_get(k, r) ==
    FieldCall("fields", MergeField(cls.fields, k, r, cls.queued_doc))

add_field_method_get_set(k, r, a) ==
    FieldCall("fields", MergeFieldPair(cls.fields, k, a, r, cls.queued_doc))

add_meta_field(k, r) ==
    FieldCall("meta_fields", MergeField(cls.meta_fields, k, r, cls.queued_doc))

MethodCall(map, k, params, returns) ==
    /\ phase = "add_methods"
    /\ ncalls < MaxCalls
    /\ cls' = [cls EXCEPT ![map] = Insert(@, k, Func(params, returns, cls.queued_doc)),
                          !.queued_doc = NoDoc]
    /\ ncalls' = ncalls + 1
    /\ UNCHANGED <<phase, uvars, gvars, mvars, pvars, lvars>>

add_method(k) == MethodCall("methods", k, PlainParams, PlainReturns)

add_method_with(k, g) == MethodCall("methods", k, g.params, g.returns)

add_function(k) == MethodCall("functions", k, PlainParams, PlainReturns)

add_function_with(k, g) == MethodCall("functions", k, g.params, g.returns)

add_method_mut(k) == MethodCall("methods", k, PlainParams, PlainReturns)

add_method_mut_with(k, g) == MethodCall("methods", k, g.params, g.returns)

add_meta_method(k) == MethodCall("meta_methods", k, PlainParams, PlainReturns)

add_meta_method_with(k, g) == MethodCall("meta_methods", k, g.params, g.returns)

add_function_mut(k) == MethodCall("functions", k, PlainParams, PlainReturns)

add_function_mut_with(k, g) == MethodCall("functions", k, g.params, g.returns)

add_meta_function(k) == MethodCall("meta_functions", k, PlainParams, PlainReturns)

\* inserts into self.functions (standard.rs:816)
add_meta_function_with(k, g) == MethodCall("functions", k, g.params, g.returns)

add_meta_method_mut(k) == MethodCall("meta_methods", k, PlainParams, PlainReturns)

add_meta_method_mut_with(k, g) == MethodCall("meta_methods", k, g.params, g.returns)

add_meta_function_mut(k) == MethodCall("meta_functions", k, PlainParams, PlainReturns)

add_meta_function_mut_with(k, g) ==
    MethodCall("meta_functions", k, g.params, g.returns)

AnyFieldCall ==
    \E k \in Keys, v \in FieldTypes, w \in FieldTypes :
        \/ add_field(k, v)
        \/ add_field_function_set(k, v)
        \/ add_field_function_get(k, v)
        \/ add_field_function_get_set(k, v, w)
        \/ add_field_method_set(k, v)
        \/ add_field_method_get(k, v)
        \/ add_field_method_get_set(k, v, w)
        \/ add_meta_field(k, v)

AnyMethodCall ==
    \E k \in Keys, g \in Generated :
        \/ add_method(k)
        \/ add_method_with(k, g)
        \/ add_function(k)
        \/ add_function_with(k, g)
        \/ add_method_mut(k)
        \/ add_method_mut_with(k, g)
        \/ add_meta_method(k)
        \/ add_meta_method_with(k, g)
        \/ add_function_mut(k)
        \/ add_function_mut_with(k, g)
        \/ add_meta_function(k)
        \/ add_meta_function_with(k, g)
        \/ add_meta_method_mut(k)
        \/ add_meta_method_mut_with(k, g)
        \/ add_meta_function_mut(k)
        \/ add_meta_function_mut_with(k, g)

NextClass ==
    \/ \E d \in Docs : AddDocumentation(d)
    \/ EndPhase
    \/ \E d \in Docs : Document(d)
    \/ AnyFieldCall
    \/ AnyMethodCall

SpecClass == InitClass /\ [][NextClass]_vars

MemberMaps ==
    {"fields", "static_fields", "meta_fields", "methods", "meta_methods",
     "functions", "meta_functions"}

\* a step that is one add_* call
IsAddCall == phase \in {"add_fields", "add_methods"} /\ ncalls' = ncalls + 1

\* C6: the same field name registered with string and "first" queued, then
\* with integer and "second" queued, is one field of shape string | integer
\* documented "first" followed by "second"
C6_MergeOnRedeclare ==
    [][\A k \in Keys :
        /\ ( /\ HasKey(cls.static_fields, k)
             /\ cls.static_fields[k]
                    = [ty |-> Single("string"), doc |-> Some(<<"first">>)]
             /\ cls.queued_doc = Some(<<"second">>)
             /\ add_field(k, Single("integer")) )
           => cls'.static_fields[k]
                 = [ty |-> Union(<<Single("string"), Single("integer")>>),
                    doc |-> Some(<<"first", "second">>)]
        /\ ( /\ HasKey(cls.fields, k)
             /\ cls.fields[k]
                    = [ty |-> Single("string"), doc |-> Some(<<"first">>)]
             /\ cls.queued_doc = Some(<<"second">>)
             /\ add_field_method_get(k, Single("integer")) )
           => cls'.fields[k]
                 = [ty |-> Union(<<Single("string"), Single("integer")>>),
                    doc |-> Some(<<"first", "second">>)]
      ]_vars

\* C7: an add_* call that registers a new key attaches the queued
\* documentation to it (none when nothing is queued) and empties the queue;
\* document() alone changes no member
C7_DocumentThenAdd ==
    [][/\ IsAddCall =>
            /\ cls'.queued_doc = NoDoc
            /\ \A m \in MemberMaps, k \in Keys :
                   (~HasKey(cls[m], k) /\ HasKey(cls'[m], k))
                       => cls'[m][k].doc = cls.queued_doc
       /\ \A d \in Docs :
            Document(d) => /\ \A m \in MemberMaps : cls'[m] = cls[m]
                           /\ cls'.type_doc = cls.type_doc
      ]_vars

C7_Witness ==
    /\ phase = "add_methods"
    /\ HasKey(cls.methods, "name") /\ cls.methods["name"].doc = Some(<<"first">>)
    /\ HasKey(cls.methods, "size") /\ cls.methods["size"].doc = NoDoc
    /\ cls.queued_doc = NoDoc

(***************************************************************************)
(* Definition entries and the definition writer (typed/generator).         *)
(***************************************************************************)
Tuple(ts) == [tag |-> "Tuple", items |-> ts]

Map(k, v) == [tag |-> "Map", items |-> <<k, v>>]

Function(params, returns) ==
    [tag |-> "Function", params |-> params, returns |-> returns]

Alias(t) == [tag |-> "Alias", items |-> <<t>>]

Value(t) == [tag |-> "Value", items |-> <<t>>]

Class(data) == [tag |-> "Class", data |-> data]

Enum(name, types) == [tag |-> "Enum", name |-> name, items |-> types]

Module(m) == [tag |-> "Module", data |-> m]

\* Type::Table: the entries are <<key, shape>> pairs in key order
Table(pairs) == [tag |-> "Table", items |-> pairs]

\* mlua::Result
Ok(v) == [ok |-> TRUE, val |-> v]

Err(e) == [ok |-> FALSE, err |-> e]

MissingEnum ==
    "missing enum type definition; make sure the type is registered before it is used"

MissingClass ==
    "missing class type definition; make sure the type is registered before it is used"

NotASignature == "type cannot be a type signature: "

InvalidRoot == "invalid root level type: "

\* slice::join
Join(strs, sep) ==
    LET join[i \in 0..Len(strs)] ==
            IF i = 0 THEN ""
            ELSE IF i = 1 THEN strs[1]
            ELSE join[i - 1] \o sep \o strs[i]
    IN join[Len(strs)]

\* Iterator::flatten over a list of lists
Concat(seqs) ==
    LET cat[i \in 0..Len(seqs)] ==
            IF i = 0 THEN <<>> ELSE cat[i - 1] \o seqs[i]
    IN cat[Len(seqs)]

\* collect::<Result<Vec<_>>>(), and a run of ? operators: the values when
\* every result is Ok, the first error otherwise
Collected(results) ==
    IF \A i \in 1..Len(results) : results[i].ok
    THEN Ok([i \in 1..Len(results) |-> results[i].val])
    ELSE results[CHOOSE i \in 1..Len(results) :
                    /\ ~results[i].ok
                    /\ \A j \in 1..(i - 1) : results[j].ok]

ParamNameFromOne(param, i) ==
    IF param.name = NoDoc THEN "param" \o ToString(i + 1) ELSE param.name[1]

\* name.unwrap_or(format!("param{i}")) of parameter i, counted from 0
ParamName(param, i) ==
    IF param.name = NoDoc THEN "param" \o ToString(i) ELSE param.name[1]

ParamNames(params) ==
    [i \in 1..Len(params) |-> ParamName(params[i], i - 1)]

ChildrenWithParams(ty) ==
    CASE ty.tag \in {"Tuple", "Array", "Map", "Union"} -> ty.items
      [] ty.tag = "Function" ->
            [i \in 1..Len(ty.params) |-> ty.params[i].ty]
            \o [i \in 1..Len(ty.returns) |-> ty.returns[i].ty]
      [] ty.tag = "Table" -> [i \in 1..Len(ty.items) |-> ty.items[i][2]]
      [] OTHER -> <<>>

\* the shapes whose signatures the signature of ty is made of
Children(ty) ==
    CASE ty.tag \in {"Tuple", "Array", "Map", "Union"} -> ty.items
      [] ty.tag = "Function" -> [i \in 1..Len(ty.returns) |-> ty.returns[i].ty]
      [] ty.tag = "Table" -> [i \in 1..Len(ty.items) |-> ty.items[i][2]]
      [] OTHER -> <<>>

\* the format! of each composite arm of type_signature, given the signatures
\* of its children
Composite(ty, sigs) ==
    CASE ty.tag = "Tuple" -> "[" \o Join(sigs, ", ") \o "]"
      [] ty.tag = "Array" -> sigs[1] \o "[]"
      [] ty.tag = "Map" -> "{ [" \o sigs[1] \o "]: " \o sigs[2] \o " }"
      [] ty.tag = "Function" ->
            "fun(" \o Join(ParamNames(ty.params), ", ") \o ")"
            \o (IF ty.returns = <<>> THEN "" ELSE ": " \o Join(sigs, ", "))
      [] ty.tag = "Union" -> Join(sigs, " | ")
      [] ty.tag = "Table" ->
            "{ " \o Join([i \in 1..Len(sigs) |->
                            ty.items[i][1] \o ": " \o sigs[i]], ", ") \o " }"

\* Result::map
MapOk(res, ty) == IF res.ok THEN Ok(Composite(ty, res.val)) ELSE res

\* DefinitionWriter::type_signature; CollectSignatures is the
\* iter().map(type_signature).collect::<Result<Vec<_>>>() of its arms, which
\* yields the first error
RECURSIVE type_signature(_, _)
CollectSignatures(types, table) ==
    Collected([i \in 1..Len(types) |-> type_signature(types[i], table)])

type_signature(ty, table) ==
    CASE ty.tag = "Enum" ->
            IF ty \in DOMAIN table THEN Ok(table[ty]) ELSE Err(MissingEnum)
      [] ty.tag = "Class" ->
            IF ty \in DOMAIN table THEN Ok(table[ty]) ELSE Err(MissingClass)
      [] ty.tag = "Single" -> Ok(ty.name)
      [] ty.tag \in {"Tuple", "Array", "Map", "Function", "Union", "Table"} ->
            MapOk(CollectSignatures(Children(ty), table), ty)
      [] OTHER -> Err(NotASignature \o ty.tag)

AccumulateDocsMarkingFirstLine(docs) ==
    Concat([d \in 1..Len(docs) |->
              IF docs[d] = NoDoc THEN <<>>
              ELSE [i \in 1..Len(docs[d][1]) |->
                       IF i = 1 THEN "--- " \o docs[d][1][i] ELSE docs[d][1][i]]])

\* Option<&str> texts to their "--- " lines: DefinitionWriter::accumulate_docs
\* (None when no text is present is the empty list here)
accumulate_docs(docs) ==
    Concat([d \in 1..Len(docs) |->
              IF docs[d] = NoDoc THEN <<>>
              ELSE [i \in 1..Len(docs[d][1]) |-> "--- " \o docs[d][1][i]]])

\* doc.as_deref().unwrap_or_default() of a parameter or return value
DocOrDefault(doc) == IF doc = NoDoc THEN "" ELSE Join(doc[1], "\n")

\* Result::map with a line format
MapLine(res, first, last) ==
    IF res.ok THEN Ok(first \o res.val \o last) ELSE res

\* the "--- @param" line of parameter i, counted from 0
ParamLine(param, i, table) ==
    MapLine(type_signature(param.ty, table),
            "--- @param " \o ParamName(param, i) \o " ",
            " " \o DocOrDefault(param.doc))

\* the "--- @return" line of a return value
ReturnLine(ret, table) ==
    MapLine(type_signature(ret.ty, table), "--- @return ",
            " " \o DocOrDefault(ret.doc))

\* the lines of function_signature and method_signature before the last
SignatureLines(params, returns, table) ==
    [i \in 1..Len(params) |-> ParamLine(params[i], i - 1, table)]
    \o [i \in 1..Len(returns) |-> ReturnLine(returns[i], table)]

\* result.push(last); Ok(result)
PushLast(res, last) == IF res.ok THEN Ok(Append(res.val, last)) ELSE res

\* DefinitionWriter::function_signature
function_signature(name, params, returns, assign, table) ==
    PushLast(Collected(SignatureLines(params, returns, table)),
             (IF assign THEN name \o " = " ELSE "") \o "function"
             \o (IF ~assign THEN " " \o name ELSE "")
             \o "(" \o Join(ParamNames(params), ", ") \o ") end")

\* DefinitionWriter::method_signature
method_signature(name, class, params, returns, assign, table) ==
    PushLast(Collected(<<Ok("--- @param self " \o class)>>
                       \o SignatureLines(params, returns, table)),
             (IF assign THEN name \o " = " ELSE "") \o "function"
             \o (IF ~assign THEN " " \o name ELSE "")
             \o "(" \o (IF params = <<>> THEN "self" ELSE "self, ")
             \o Join(ParamNames(params), ", ") \o ") end")

(***************************************************************************)
(* The sink of the writer.  Its content is kept split at line breaks: the  *)
(* last segment is the text after the last line break.  A rendering is the *)
(* list of the writes it performs, in order, ending with the error it      *)
(* returns if it fails; Run performs them on a sink until the first error  *)
(* (the ? operator).                                                       *)
(***************************************************************************)
EmptyBuffer == <<"">>

\* write!(buffer, "{s}")
Write(s) == [op |-> "write", text |-> s]

\* writeln!(buffer, "{s}") for a text without line breaks
Writeln(s) == [op |-> "writeln", text |-> s]

\* return Err(e)
Fail(e) == [op |-> "fail", text |-> e]

RECURSIVE Run(_, _)
Run(st, writes) ==
    IF writes = <<>> \/ st.err # "" THEN st
    ELSE LET w == writes[1]
             appended == [st.buf EXCEPT ![Len(st.buf)] = @ \o w.text]
         IN Run(CASE w.op = "write" -> [st EXCEPT !.buf = appended]
                  [] w.op = "writeln" -> [st EXCEPT !.buf = Append(appended, "")]
                  [] OTHER -> [st EXCEPT !.err = w.text],
                Tail(writes))

\* writeln!(buffer, "{first}{}{last}", lines.join("\n{sep}"))
WriteJoined(first, sep, lines, last) ==
    IF lines = <<>> THEN <<Writeln(first \o last)>>
    ELSE [i \in 1..Len(lines) |->
            Writeln((IF i = 1 THEN first ELSE sep) \o lines[i]
                    \o (IF i = Len(lines) THEN last ELSE ""))]

\* if let Some(docs) = accumulate_docs(texts) { writeln!(first, join(sep)) }
WriteDocs(first, sep, texts) ==
    IF accumulate_docs(texts) = <<>> THEN <<>>
    ELSE WriteJoined(first, sep, accumulate_docs(texts), "")

\* writeln!(buffer, "{first}{}{last}", result?.join("\n{sep}")) for a
\* rendering of lines that may have failed
WriteResult(first, sep, res, last) ==
    IF ~res.ok THEN <<Fail(res.err)>>
    ELSE WriteJoined(first, sep, res.val, last)

\* writeln!(buffer, "{first}{}", type_signature(ty)?)
WriteSignature(first, ty, table) ==
    WriteResult(first, "", Collected(<<type_signature(ty, table)>>), "")

\* str::chars: the characters of a text
Chars(s) == [i \in 1..Len(s) |-> SubSeq(s, i, i)]

\* the characters the texts of the model are made of, in ascending order of
\* their UTF-8 encoding
ByteOrder ==
    " \"'-.0123456789:ABCDEFGHIJKLMNOPQRSTUVWXYZ[]_abcdefghijklmnopqrstuvwxyzé"

Rank(c) == CHOOSE i \in 1..Len(ByteOrder) : SubSeq(ByteOrder, i, i) = c

\* Ord for str: the first differing character decides, a proper prefix is
\* smaller
KeyLess(a, b) ==
    \E i \in 1..(Len(b)) :
        /\ i <= Len(a) + 1
        /\ SubSeq(a, 1, i - 1) = SubSeq(b, 1, i - 1)
        /\ \/ i = Len(a) + 1
           \/ Rank(SubSeq(a, i, i)) < Rank(SubSeq(b, i, i))

\* BTreeMap::iter: the keys of a map in ascending order
SortedKeys(map) ==
    [i \in 1..Cardinality(DOMAIN map) |->
        CHOOSE k \in DOMAIN map :
            Cardinality({j \in DOMAIN map : KeyLess(j, k)}) = i - 1]

\* the characters of [A-Za-z0-9_]
IdentChars ==
    {SubSeq(ByteOrder, i, i) : i \in 1..Len(ByteOrder)}
        \ {" ", "\"", "'", "-", ".", ":", "[", "]", "é"}

\* Display for Index, a textual key: a key that is not a bare identifier is
\* written as a bracketed string literal
IndexDisplay(key) ==
    IF \E i \in 1..Len(key) : Chars(key)[i] \notin IdentChars
    THEN "[\"" \o key \o "\"]"
    ELSE key

\* TypedClassBuilder::is_meta_empty and TypedModuleBuilder::is_meta_empty
is_meta_empty(c) ==
    /\ c.meta_fields = EmptyMap
    /\ c.meta_functions = EmptyMap
    /\ c.meta_methods = EmptyMap

\* the body of the loops over static_fields and fields of the Class arm
ClassField(name, field, table) ==
    WriteDocs("", "", <<field.doc>>)
    \o WriteSignature("--- @field " \o IndexDisplay(name) \o " ", field.ty,
                      table)

ClassFields(map, table) ==
    Concat([i \in 1..Len(SortedKeys(map)) |->
              ClassField(SortedKeys(map)[i], map[SortedKeys(map)[i]], table)])

\* the body of the loops over functions (class = NoDoc) and methods
\* (class = Some(name)) of the Class arm and of write_module
WriteFunction(name, func, class, offset, table) ==
    WriteDocs(offset, offset, <<func.doc>>)
    \o WriteResult(offset, offset,
                   IF class = NoDoc
                   THEN function_signature(IndexDisplay(name), func.params,
                                           func.returns, TRUE, table)
                   ELSE method_signature(IndexDisplay(name), class[1],
                                         func.params, func.returns, TRUE,
                                         table),
                   ",")

WriteFunctions(map, class, offset, table) ==
    Concat([i \in 1..Len(SortedKeys(map)) |->
              WriteFunction(SortedKeys(map)[i], map[SortedKeys(map)[i]], class,
                            offset, table)])

\* the body of the loop over meta_fields of the Class arm
ClassMetaField(name, field, table) ==
    WriteDocs("    ", "    ", <<field.doc>>)
    \o WriteSignature("--- @type ", field.ty, table)
    \o <<Writeln(IndexDisplay(name) \o " = nil,")>>

ClassMetaFields(map, table) ==
    Concat([i \in 1..Len(SortedKeys(map)) |->
              ClassMetaField(SortedKeys(map)[i], map[SortedKeys(map)[i]],
                             table)])

\* the "local _CLASS_{name}_ = { ... }" part of the Class arm
ClassTable(name, c, table) ==
    IF c.functions = EmptyMap /\ c.methods = EmptyMap /\ is_meta_empty(c)
    THEN <<>>
    ELSE <<Writeln("local _CLASS_" \o name \o "_ = {")>>
         \o WriteFunctions(c.functions, NoDoc, "  ", table)
         \o WriteFunctions(c.methods, Some(name), "  ", table)
         \o (IF is_meta_empty(c) THEN <<>>
             ELSE <<Writeln("  __metatable = {")>>
                  \o ClassMetaFields(c.meta_fields, table)
                  \o WriteFunctions(c.meta_functions, NoDoc, "    ", table)
                  \o WriteFunctions(c.meta_methods, Some(name), "    ", table)
                  \o <<Writeln("  }")>>)
         \o <<Writeln("}")>>

\* (0..n).map(|_| ' ').collect::<String>()
RECURSIVE Spaces(_)
Spaces(n) == IF n = 0 THEN "" ELSE " " \o Spaces(n - 1)

\* TypedModuleBuilder::is_empty
is_empty(m) ==
    /\ m.fields = EmptyMap
    /\ m.nested_modules = EmptyMap
    /\ m.functions = EmptyMap
    /\ m.methods = EmptyMap
    /\ is_meta_empty(m)

\* DefinitionWriter::write_module at nesting depth path.len(); NestedModule
\* is its "{name} = " write, the recursive call and the "," that follows
RECURSIVE write_module(_, _, _)
NestedModule(offset, name, module, depth, table) ==
    <<Write(offset \o IndexDisplay(name) \o " = ")>>
    \o write_module(module, depth + 1, table)
    \o <<Writeln(",")>>

\* the body of the loops over fields and meta_fields of write_module
ModuleField(name, field, offset, doc_sep, depth, table) ==
    WriteDocs(offset, doc_sep, <<field.doc>>)
    \o (IF field.ty.tag = "Module"
        THEN NestedModule(offset, name, field.ty.data, depth, table)
        ELSE WriteSignature(offset \o "--- @type ", field.ty, table)
             \o <<Writeln(offset \o IndexDisplay(name) \o " = nil,")>>)

\* the loops of write_module over fields, nested_modules and meta_fields: kind
\* is "fields", "nested_modules" or "meta_fields"
ModuleItems(module, kind, depth, table) ==
    Concat([i \in 1..Len(SortedKeys(module[kind])) |->
              LET name == SortedKeys(module[kind])[i]
              IN IF kind = "nested_modules"
                 THEN WriteDocs(Spaces(depth * 2 + 2), Spaces(depth * 2 + 2),
                                <<module[kind][name].doc>>)
                      \o NestedModule(Spaces(depth * 2 + 2), name,
                                      module[kind][name], depth, table)
                 ELSE ModuleField(name, module[kind][name],
                                  IF kind = "fields" THEN Spaces(depth * 2 + 2)
                                  ELSE Spaces(depth * 2 + 4),
                                  Spaces(depth * 2 + 2), depth, table)])

write_module(module, depth, table) ==
    LET current_offset == Spaces(depth * 2)
        single_offset == Spaces(depth * 2 + 2)
        double_offset == Spaces(depth * 2 + 4)
    IN IF is_empty(module) THEN <<Write("{}")>>
       ELSE <<Writeln("{")>>
            \o Concat([k \in 1..2 |->
                         ModuleItems(module, <<"fields", "nested_modules">>[k],
                                     depth, table)])
            \o WriteFunctions(module.functions, NoDoc, single_offset, table)
            \o WriteFunctions(module.methods, Some("table"), single_offset,
                              table)
            \o (IF is_meta_empty(module) THEN <<>>
                ELSE <<Writeln(single_offset \o "__metatable = {")>>
                     \o ModuleItems(module, "meta_fields", depth, table)
                     \o WriteFunctions(module.meta_functions, NoDoc,
                                       double_offset, table)
                     \o WriteFunctions(module.meta_methods, Some("table"),
                                       double_offset, table)
                     \o <<Writeln(single_offset \o "},")>>)
            \o <<Write(current_offset \o "}")>>

\* char::is_alphanumeric: the letters and digits of Unicode, of which the
\* texts of the model hold the ASCII ones and the letter e with acute accent
is_alphanumeric(c) == c \in (IdentChars \ {"_"}) \cup {"é"}

\* key.chars().any(|v| !v.is_alphanumeric() && v != '_')
needs_escape(key) ==
    \E i \in 1..Len(key) :
        ~is_alphanumeric(Chars(key)[i]) /\ Chars(key)[i] # "_"

escape_key(key) ==
    IF needs_escape(key) THEN "[\"" \o key \o "\"]" ELSE key

\* Entry { doc, name, ty }
Entry(doc, name, ty) == [doc |-> doc, name |-> name, ty |-> ty]

NameTableUnchanged(table, entry) == table

NameTableKeepingFirst(table, entry) ==
    IF entry.ty.tag \in {"Class", "Enum"} /\ entry.ty \notin DOMAIN table
    THEN Insert(table, entry.ty, entry.name)
    ELSE table

\* name_map.insert(definition.ty.clone(), definition.name.clone()), the first
\* statement of the Class and Enum arms
NameTableFor(table, entry) ==
    IF entry.ty.tag \in {"Class", "Enum"}
    THEN Insert(table, entry.ty, entry.name)
    ELSE table

\* the match of the loop of DefinitionWriter::write: the writes of one
\* entry, made with the name table of the entry
entry_block(table, entry) ==
    LET ty == entry.ty
        name == entry.name
        docs == WriteDocs("", "", <<entry.doc>>)
    IN CASE ty.tag = "Value" ->
              docs \o WriteSignature("--- @type ", ty.items[1], table)
                   \o <<Writeln(name \o " = nil")>>
         [] ty.tag = "Class" ->
              WriteDocs("", "", <<entry.doc, ty.data.type_doc>>)
              \o <<Writeln("--- @class " \o name)>>
              \o ClassFields(ty.data.static_fields, table)
              \o ClassFields(ty.data.fields, table)
              \o ClassTable(name, ty.data, table)
         [] ty.tag = "Enum" ->
              docs \o WriteResult("--- @alias " \o name \o " ", "---  | ",
                                  CollectSignatures(ty.items, table), "")
         [] ty.tag = "Alias" ->
              docs \o WriteSignature("--- @alias " \o name \o " ",
                                     ty.items[1], table)
         [] ty.tag = "Function" ->
              docs \o WriteResult("", "",
                                  function_signature(escape_key(name), ty.params,
                                                     ty.returns, FALSE, table),
                                  "")
         [] ty.tag = "Module" ->
              WriteDocs("", "", <<entry.doc, ty.data.doc>>)
              \o <<Write(name \o " = ")>>
              \o write_module(ty.data, 0, table)
              \o <<Writeln("")>>
         [] OTHER -> <<Fail(InvalidRoot \o ty.tag)>>

WriteEntrySkippingUnsupported(st, table, entry) ==
    [st |-> Run(st, (IF entry.ty.tag \in {"Value", "Class", "Enum", "Alias",
                                          "Function", "Module"}
                     THEN entry_block(NameTableFor(table, entry), entry)
                     ELSE <<>>)
                    \o <<Writeln("")>>),
     table |-> NameTableFor(table, entry)]

\* one iteration of the loop of DefinitionWriter::write on the sink st, with
\* the blank line that ends it; the result carries the name table after it
write_entry(st, table, entry) ==
    [st |-> Run(st, entry_block(NameTableFor(table, entry), entry)
                    \o <<Writeln("")>>),
     table |-> NameTableFor(table, entry)]

\* DefinitionWriter::write as a whole, on a fresh name table: the header,
\* then one iteration per entry until one fails
RECURSIVE WriteFrom(_, _, _)
WriteFrom(st, table, defs) ==
    IF defs = <<>> \/ st.err # "" THEN st
    ELSE WriteFrom(write_entry(st, table, defs[1]).st,
                   write_entry(st, table, defs[1]).table, Tail(defs))

\* writeln!(buffer, "--- @meta\n")
WriteHeaderTo(st) == Run(st, <<Writeln("--- @meta"), Writeln("")>>)

write(st, defs) == WriteFrom(WriteHeaderTo(st), EmptyMap, defs)

(***************************************************************************)
(* The shapes and entries the definition builder of the model is given.    *)
(***************************************************************************)
\* a class with a documented instance field and a method
FooData ==
    [DefaultClass EXCEPT
        !.fields = MergeField(EmptyMap, "name", Single("string"),
                              Some(<<"the name">>)),
        !.methods = Insert(EmptyMap, "greet", Func(<<>>, <<>>, NoDoc))]

\* a class with a static field whose shape is the class Foo
BarData ==
    [DefaultClass EXCEPT
        !.type_doc = Some(<<"a bar">>),
        !.static_fields = MergeField(EmptyMap, "inner", Class(FooData), NoDoc)]

\* a unit-variant enum that is also userdata, with type documentation and
\* one meta method
ColorData ==
    [DefaultClass EXCEPT
        !.type_doc = Some(<<"Representation of a color">>),
        !.meta_methods = Insert(EmptyMap, "__tostring", Func(<<>>, <<>>, NoDoc))]

\* a struct that is userdata, with type documentation
ExampleData ==
    [DefaultClass EXCEPT
        !.type_doc = Some(<<"This is a doc comment section for the overall type">>)]

\* Type::class::<T>()
ClassOf ==
    [Foo |-> Class(FooData), Bar |-> Class(BarData),
     Color |-> Class(ColorData), Example |-> Class(ExampleData)]

\* T::ty() of the types handed to register_enum, value and alias
Color == Enum("Color", <<Single("\"red\""), Single("\"green\"")>>)

\* TypedModuleBuilder::default()
DefaultModule ==
    [doc |-> NoDoc, nested_modules |-> EmptyMap,
     fields |-> EmptyMap, meta_fields |-> EmptyMap,
     functions |-> EmptyMap, methods |-> EmptyMap,
     meta_functions |-> EmptyMap, meta_methods |-> EmptyMap,
     queued_doc |-> NoDoc, parents |-> <<>>]

\* a module with a field and a nested module that holds a function
ToolsModule ==
    [DefaultModule EXCEPT
        !.fields = Insert(EmptyMap, "count",
                          [ty |-> Single("integer"), doc |-> NoDoc]),
        !.nested_modules =
            Insert(EmptyMap, "inner",
                   [DefaultModule EXCEPT
                       !.functions = Insert(EmptyMap, "ping",
                                            Func(<<>>, PlainReturns, NoDoc)),
                       !.parents = <<"Inner">>])]

TyOf ==
    [string |-> Single("string"), Foo |-> Class(FooData), Color |-> Color,
     Foos |-> Array(Class(FooData))]

ValueTypes == {"string", "Foo", "Color", "Foos"}

ClassTypes == {"Foo", "Bar"}

\* entries pushed on the public entries list whose shape no builder call
\* produces: a bare tuple and a module
RawEntries ==
    {Entry(NoDoc, "t", Tuple(<<Single("string"), Single("integer")>>)),
     Entry(NoDoc, "tools", Module(ToolsModule))}

\* the content of the output path before write_file
PrevContent == <<"--- @meta", "", "--- @type string", "old = nil", "", "">>

(***************************************************************************)
(* The definition builder and write_file as a state machine.               *)
(***************************************************************************)
InitGen ==
    /\ IdleUnion /\ IdleClass /\ IdleModule /\ IdlePasses /\ IdleLua
    /\ entries = <<>>
    /\ gpc = "building"
    /\ definition = <<>>
    /\ idx = 0
    /\ name_map = EmptyMap
    /\ file = PrevContent
    /\ result = ""

PushFront(e) ==
    /\ gpc = "building"
    /\ Len(entries) < MaxEntries
    /\ entries' = <<e>> \o entries
    /\ UNCHANGED <<gpc, definition, idx, name_map, file, result, uvars, cvars, mvars, pvars, lvars>>

\* self.entries.push(e) of every builder call
Push(e) ==
    /\ gpc = "building"
    /\ Len(entries) < MaxEntries
    /\ entries' = Append(entries, e)
    /\ UNCHANGED <<gpc, definition, idx, name_map, file, result, uvars, cvars, mvars, pvars, lvars>>

\* DefinitionBuilder::function
function(name) == Push(Entry(NoDoc, name, Function(PlainParams, PlainReturns)))

\* DefinitionBuilder::function_with: the generator may document the function
function_with(name, g, doc) == Push(Entry(doc, name, Function(g.params, g.returns)))

\* DefinitionBuilder::alias
alias(name, ty) == Push(Entry(NoDoc, name, Alias(ty)))

\* DefinitionBuilder::alias_with
alias_with(name, ty, doc) == Push(Entry(doc, name, Alias(ty)))

RegisterAsAlias(T) == Push(Entry(NoDoc, T, Alias(ClassOf[T])))

\* DefinitionBuilder::register: the entry is named by the last path segment
\* of the type name
register(T) == Push(Entry(NoDoc, T, ClassOf[T]))

\* DefinitionBuilder::register_with: the entry is named by the full type name
register_with(T, doc) == Push(Entry(doc, "app::" \o T, ClassOf[T]))

RegisterEnumUnchecked(ty) == Push(Entry(NoDoc, "Enum", ty))

\* DefinitionBuilder::register_enum: an entry only when T::ty() is an Enum
register_enum(ty) ==
    IF ty.tag = "Enum" THEN Push(Entry(NoDoc, ty.name, ty))
    ELSE /\ gpc = "building"
         /\ gpc' = "rejected"
         /\ UNCHANGED <<entries, definition, idx, name_map, file, result,
                        uvars, cvars, mvars, pvars, lvars>>

\* DefinitionBuilder::register_enum_with
register_enum_with(ty, doc) ==
    IF ty.tag = "Enum" THEN Push(Entry(doc, ty.name, ty))
    ELSE /\ gpc = "building"
         /\ gpc' = "rejected"
         /\ UNCHANGED <<entries, definition, idx, name_map, file, result,
                        uvars, cvars, mvars, pvars, lvars>>

\* DefinitionBuilder::value
value(name, ty) == Push(Entry(NoDoc, name, Value(ty)))

\* DefinitionBuilder::value_with
value_with(name, ty, doc) == Push(Entry(doc, name, Value(ty)))

\* builder.entries.push(entry) on the public list
push_entry(e) == Push(e)

\* DefinitionBuilder::finish
finish ==
    /\ gpc = "building"
    /\ definition' = entries
    /\ gpc' = "finished"
    /\ UNCHANGED <<entries, idx, name_map, file, result, uvars, cvars, mvars, pvars, lvars>>

\* write_file: OpenOptions::new().create(true).truncate(true).write(true).open
OpenFile ==
    /\ gpc = "finished"
    /\ file' = EmptyBuffer
    /\ gpc' = "opened"
    /\ UNCHANGED <<entries, definition, idx, name_map, result, uvars, cvars, mvars, pvars, lvars>>

\* write: writeln!(buffer, "--- @meta\n")
WriteHeader ==
    /\ gpc = "opened"
    /\ file' = WriteHeaderTo([buf |-> file, err |-> ""]).buf
    /\ gpc' = "entries"
    /\ UNCHANGED <<entries, definition, idx, name_map, result, uvars, cvars, mvars, pvars, lvars>>

\* write: one iteration of the loop over the entries; an error ends the call
WriteEntry ==
    /\ gpc = "entries"
    /\ idx < Len(definition)
    /\ LET r == write_entry([buf |-> file, err |-> ""], name_map,
                            definition[idx + 1])
       IN /\ file' = r.st.buf
          /\ name_map' = r.table
          /\ IF r.st.err = ""
             THEN /\ idx' = idx + 1
                  /\ UNCHANGED <<gpc, result>>
             ELSE /\ result' = r.st.err
                  /\ gpc' = "done"
                  /\ UNCHANGED idx
    /\ UNCHANGED <<entries, definition, uvars, cvars, mvars, pvars, lvars>>

\* write: Ok(()) after the last entry
WriteReturn ==
    /\ gpc = "entries"
    /\ idx = Len(definition)
    /\ result' = "ok"
    /\ gpc' = "done"
    /\ UNCHANGED <<entries, definition, idx, name_map, file, uvars, cvars, mvars, pvars, lvars>>

NextGen ==
    \/ function("greet")
    \/ \E g \in Generated : function_with("greet", g, Some(<<"first">>))
    \/ alias("Id", Single("string"))
    \/ alias_with("Id", Array(Class(FooData)), Some(<<"first">>))
    \/ \E T \in ClassTypes : register(T)
    \/ register_with("Foo", Some(<<"first", "second">>))
    \/ \E ty \in {Color, Single("string")} : register_enum(ty)
    \/ register_enum_with(Color, Some(<<"first">>))
    \/ \E T \in ValueTypes : value("v", TyOf[T])
    \/ value_with("v", Class(FooData), Some(<<"first">>))
    \/ \E e \in RawEntries : push_entry(e)
    \/ finish
    \/ OpenFile
    \/ WriteHeader
    \/ WriteEntry
    \/ WriteReturn

SpecGen == InitGen /\ [][NextGen]_vars

(***************************************************************************)
(* Properties of the definition builder and writer.                        *)
(***************************************************************************)
FreshSink == [buf |-> EmptyBuffer, err |-> ""]

\* a Value entry whose shape is a class or an array of a class
ReferencedClass(e) ==
    IF e.ty.items[1].tag = "Array" THEN e.ty.items[1].items[1] ELSE e.ty.items[1]

IsClassValue(e) == e.ty.tag = "Value" /\ ReferencedClass(e).tag = "Class"

\* the entries of the definition before position j whose shape is ty
EarlierEntries(j, ty) == {i \in 1..(j - 1) : definition[i].ty = ty}

Latest(S) == CHOOSE m \in S : \A x \in S : x <= m

LastLines(buf, n) == SubSeq(buf, Len(buf) - n + 1, Len(buf))

\* C1: when the writer reaches a Value entry that references a class, it
\* fails with the missing-class error if no earlier entry registers that
\* class, and otherwise writes the reference as the name of the (latest)
\* earlier entry that registers it
C1_ForwardReference ==
    [][(gpc = "entries" /\ idx < Len(definition)
            /\ IsClassValue(definition[idx + 1])) =>
         LET e == definition[idx + 1]
             earlier == EarlierEntries(idx + 1, ReferencedClass(e))
         IN IF earlier = {}
            THEN gpc' = "done" /\ result' = MissingClass /\ idx' = idx
            ELSE /\ gpc' = "entries" /\ result' = "" /\ idx' = idx + 1
                 /\ LastLines(file', 4) =
                        <<"--- @type " \o definition[Latest(earlier)].name
                              \o (IF e.ty.items[1].tag = "Array" THEN "[]"
                                  ELSE ""),
                          e.name \o " = nil", "", "">>
      ]_vars

\* a Value of class Foo written before the entry that registers Foo
C1_Witness ==
    /\ gpc = "done" /\ result = MissingClass /\ idx = 0
    /\ Len(definition) = 2
    /\ definition[1] = Entry(NoDoc, "v", Value(Class(FooData)))
    /\ definition[2] = Entry(NoDoc, "Foo", Class(FooData))

RootTags == {"Value", "Class", "Enum", "Alias", "Function", "Module"}

Unsupported(j) == definition[j].ty.tag \notin RootTags

\* C8: a write to the path that has failed leaves the path holding its
\* previous content or a complete output
C8_NoPartialFile ==
    (gpc = "done" /\ result # "ok") =>
        \/ file = PrevContent
        \/ /\ write(FreshSink, definition).err = ""
           /\ file = write(FreshSink, definition).buf

\* C9 as stated: a definition with an unsupported root entry at position j
\* is rejected with the unsupported-root error and the output holds the
\* blocks of the entries before j only
C9_UnsupportedRoot ==
    gpc = "done" =>
        \A j \in 1..Len(definition) :
            (Unsupported(j) /\ \A i \in 1..(j - 1) : ~Unsupported(i)) =>
                /\ result = InvalidRoot \o definition[j].ty.tag
                /\ file = write(FreshSink, SubSeq(definition, 1, j - 1)).buf

\* C9 amended: the same when the entries before j are written without error
C9_UnsupportedRootReached ==
    gpc = "done" =>
        \A j \in 1..Len(definition) :
            ( /\ Unsupported(j)
              /\ write(FreshSink, SubSeq(definition, 1, j - 1)).err = "" ) =>
                /\ result = InvalidRoot \o definition[j].ty.tag
                /\ idx = j - 1
                /\ file = write(FreshSink, SubSeq(definition, 1, j - 1)).buf

C9_Witness ==
    /\ gpc = "done" /\ idx = 1
    /\ Len(definition) = 2
    /\ definition[1].ty = Value(Single("string"))
    /\ definition[2].ty.tag = "Tuple"
    /\ result = InvalidRoot \o "Tuple"
    /\ LastLines(file, 3) = <<"v = nil", "", "">>

\* the Class and Enum shapes of the first j entries, each with the name of the
\* latest of these entries that has the shape
NamesUpTo(j) ==
    [ty \in {definition[i].ty :
                i \in {i \in 1..j : definition[i].ty.tag \in {"Class", "Enum"}}}
        |-> definition[Latest(EarlierEntries(j + 1, ty))].name]

\* the parts of C10 on the order of the entries and of their blocks
InCallOrder ==
    /\ (gpc = "building" /\ entries' # entries) =>
            /\ Len(entries') = Len(entries) + 1
            /\ SubSeq(entries', 1, Len(entries)) = entries
    /\ (gpc = "building" /\ gpc' = "finished") => definition' = entries
    /\ (gpc = "entries" /\ idx' = idx + 1) =>
            file' = Run([buf |-> file, err |-> ""],
                        entry_block(name_map', definition[idx + 1])
                        \o <<Writeln("")>>).buf

\* C10 as stated: entries and blocks are in call order, and the name table
\* used at entry j holds exactly the Class and Enum entries before j
C10_OrderAndTable ==
    [][/\ InCallOrder
       /\ (gpc = "entries" /\ idx < Len(definition)) =>
                DOMAIN name_map' = DOMAIN NamesUpTo(idx)
      ]_vars

\* C10 amended: the name table used at entry j holds the Class and Enum
\* entries up to and including j, each shape under its latest name
C10_OrderAndTableThroughEntry ==
    [][/\ InCallOrder
       /\ (gpc = "entries" /\ idx < Len(definition)) =>
                name_map' = NamesUpTo(idx + 1)
      ]_vars

C10_Witness ==
    /\ gpc = "done" /\ result = "ok" /\ idx = 2
    /\ definition[1] = Entry(NoDoc, "Foo", Class(FooData))
    /\ definition[2] = Entry(NoDoc, "Bar", Class(BarData))
    /\ name_map = (Class(FooData) :> "Foo") @@ (Class(BarData) :> "Bar")

(***************************************************************************)
(* The module collector: TypedModuleBuilder::new and the calls that        *)
(* add_fields makes on it.  A module type is given by the calls of its     *)
(* add_fields, in order, each followed by the ? operator; a frame of the   *)
(* stack is one running add_fields/add_methods pair with the builder it    *)
(* fills and the key it is nested under.                                   *)
(***************************************************************************)
ModuleTypes == {"A", "B", "C"}

TypeOrder == <<"A", "B", "C">>

\* fields.add_module::<V>(name)?
AddModuleCall(V, name) == [op |-> "add_module", ty |-> V, name |-> name]

\* fields.document(doc)
DocumentCall(doc) == [op |-> "document", doc |-> doc]

\* fields.add_field(name, value)? and fields.add_meta_field(name, value)?
AddFieldCall(op, name, ty) == [op |-> op, name |-> name, ty |-> ty]

\* the key of the i-th add_module call of an add_fields
SiblingName(i) == "n" \o ToString(i)

\* the add_module calls of one add_fields: at most MaxChildren types, the
\* same type any number of times
NestedChoices ==
    {[i \in 1..Len(ts) |-> AddModuleCall(ts[i], SiblingName(i))] :
        ts \in {ts \in SeqsUpTo(ModuleTypes, MaxChildren) :
                   \A i \in 1..(Len(ts) - 1) :
                       \E j, k \in 1..Len(TypeOrder) :
                           /\ TypeOrder[j] = ts[i]
                           /\ TypeOrder[k] = ts[i + 1]
                           /\ j <= k}}

\* M::documentation()
Documentation(ty) ==
    IF ty \in {"C", "N"} THEN Some(<<"module " \o ty>>) ELSE NoDoc

CyclicModule(V) == "infinite nested modules using: '" \o V \o "'"

ParentsNotExtended(parents, V) == parents

\* self.parents.iter().map(|v| *v).chain([type_name::<V>()]).collect()
NestedParents(parents, V) == Append(parents, V)

ParentsSharedWithNested(own, nested) == nested

\* self.parents after add_module returns: the nested builder got a copy
CallerParents(own, nested) == own

\* a builder at the start of add_fields, and its frame
Frame(ty, name, parents) ==
    [ty |-> ty, name |-> name, todo |-> nests[ty],
     builder |-> [DefaultModule EXCEPT !.parents = parents,
                                       !.doc = Documentation(ty)]]

InitModule ==
    /\ IdleUnion /\ IdleClass /\ IdleGen /\ IdlePasses /\ IdleLua
    /\ nests \in [ModuleTypes -> NestedChoices]
    /\ root \in ModuleTypes
    /\ stack = <<>>
    /\ mpc = "start"
    /\ built = None
    /\ merr = ""

\* TypedModuleBuilder::new::<M>() up to the call of M::add_fields
New ==
    /\ mpc = "start"
    /\ stack' = <<Frame(root, "", <<>>)>>
    /\ mpc' = "running"
    /\ UNCHANGED <<nests, root, built, merr, uvars, cvars, gvars, pvars, lvars>>

\* the call the running add_fields makes next
NextCall == Head(stack[Len(stack)].todo)

Calling(op) ==
    /\ mpc = "running"
    /\ stack[Len(stack)].todo # <<>>
    /\ NextCall.op = op

AddModuleInsertingFirst ==
    /\ Calling("add_module")
    /\ LET top == stack[Len(stack)]
           V == NextCall.ty
       IN IF Contains(top.builder.parents, V)
          THEN /\ merr' = CyclicModule(V)
               /\ mpc' = "failed"
               /\ UNCHANGED stack
          ELSE /\ stack' =
                   Append([stack EXCEPT
                              ![Len(stack)].builder.nested_modules =
                                  Insert(@, NextCall.name, DefaultModule)],
                          Frame(V, NextCall.name,
                                NestedParents(top.builder.parents, V)))
               /\ UNCHANGED <<mpc, merr>>
    /\ UNCHANGED <<nests, root, built, uvars, cvars, gvars, pvars, lvars>>

\* add_module::<V>(name) up to the call of V::add_fields, or its error
AddModule ==
    /\ Calling("add_module")
    /\ LET top == stack[Len(stack)]
           V == NextCall.ty
       IN IF Contains(top.builder.parents, V)
          THEN /\ merr' = CyclicModule(V)
               /\ mpc' = "failed"
               /\ UNCHANGED stack
          ELSE /\ stack' = Append(stack,
                                  Frame(V, NextCall.name,
                                        NestedParents(top.builder.parents, V)))
               /\ UNCHANGED <<mpc, merr>>
    /\ UNCHANGED <<nests, root, built, uvars, cvars, gvars, pvars, lvars>>

\* the ? operators: every add_fields on the stack hands the error on, up to
\* the caller of new
Propagate ==
    /\ mpc = "failed"
    /\ stack' = <<>>
    /\ mpc' = "returned"
    /\ UNCHANGED <<nests, root, built, merr, uvars, cvars, gvars, pvars, lvars>>

\* a call on the builder of the running add_fields that changes the builder
\* alone
BuilderCall(op, builder) ==
    /\ Calling(op)
    /\ stack' = [stack EXCEPT ![Len(stack)] =
                    [@ EXCEPT !.todo = Tail(@), !.builder = builder]]
    /\ UNCHANGED <<nests, root, mpc, built, merr, uvars, cvars, gvars, pvars, lvars>>

\* TypedModuleFields::document
module_document ==
    BuilderCall("document",
                [stack[Len(stack)].builder EXCEPT
                    !.queued_doc = Some(NextCall.doc)])

\* TypedModuleFields::add_field
module_add_field ==
    BuilderCall("add_field",
                [stack[Len(stack)].builder EXCEPT
                    !.fields = Insert(@, NextCall.name,
                                      [ty |-> NextCall.ty,
                                       doc |-> stack[Len(stack)].builder.queued_doc]),
                    !.queued_doc = NoDoc])

\* TypedModuleFields::add_meta_field
module_add_meta_field ==
    BuilderCall("add_meta_field",
                [stack[Len(stack)].builder EXCEPT
                    !.meta_fields = Insert(@, NextCall.name,
                                           [ty |-> NextCall.ty,
                                            doc |-> stack[Len(stack)].builder.queued_doc]),
                    !.queued_doc = NoDoc])

\* the end of V::add_fields and V::add_methods: add_module inserts the
\* nested builder and returns Ok, and new returns the root builder
EndModule ==
    /\ mpc = "running"
    /\ stack[Len(stack)].todo = <<>>
    /\ IF Len(stack) = 1
       THEN /\ built' = stack[1].builder
            /\ mpc' = "built"
            /\ stack' = <<>>
       ELSE /\ stack' =
                [SubSeq(stack, 1, Len(stack) - 1) EXCEPT
                    ![Len(stack) - 1] =
                        [@ EXCEPT
                            !.todo = Tail(@),
                            !.builder.parents =
                                CallerParents(@, stack[Len(stack)].builder.parents),
                            !.builder.nested_modules =
                                Insert(@, stack[Len(stack)].name,
                                       stack[Len(stack)].builder)]]
            /\ UNCHANGED <<mpc, built>>
    /\ UNCHANGED <<nests, root, merr, uvars, cvars, gvars, pvars, lvars>>

NextModule == New \/ AddModule \/ Propagate \/ EndModule

\* the collector is a sequential computation that keeps running
SpecModule == InitModule /\ [][NextModule]_vars /\ WF_vars(NextModule)

\* the types a module type nests, and the types it reaches by nesting
Nested(t) == {nests[t][i].ty : i \in 1..Len(nests[t])}

RECURSIVE Descendants(_, _)
Descendants(S, n) ==
    IF n = 0 THEN S
    ELSE Descendants(S \cup UNION {Nested(t) : t \in S}, n - 1)

OnCycle(t) == t \in Descendants(Nested(t), Cardinality(ModuleTypes))

\* C2: building the collector of a module type that lies on a cycle of the
\* nesting graph ends with the cyclic-module error, and the nesting of
\* running add_module calls never exceeds the number of module types
C2_CycleRejected ==
    /\ [](Len(stack) <= Cardinality(ModuleTypes) + 1)
    /\ [](mpc = "built" => ~OnCycle(root))
    /\ OnCycle(root) ~>
          (mpc \in {"failed", "returned"}
              /\ merr \in {CyclicModule(V) : V \in ModuleTypes})

\* A nests B nests A, built for A
C2_Witness ==
    /\ root = "A"
    /\ nests["A"] = <<AddModuleCall("B", SiblingName(1))>>
    /\ nests["B"] = <<AddModuleCall("A", SiblingName(1))>>
    /\ mpc = "failed" /\ merr = CyclicModule("B")

(***************************************************************************)
(* Member keys on emission: one declaration made under a key, written by   *)
(* the definition writer.                                                  *)
(***************************************************************************)
\* longest key drawn
MaxKeyLen == 2

KeyAlphabet == {"a", "1", "_", "-", "é"}

\* the keys drawn, the empty key among them
KeyTexts == {Join(cs, "") : cs \in SeqsUpTo(KeyAlphabet, MaxKeyLen)}

\* where a key is declared
Places ==
    {"function", "class_field", "class_static_field", "class_function",
     "class_method", "module_field", "module_function", "nested_module"}

PlainField == [ty |-> Single("string"), doc |-> NoDoc]

\* the entry of a declaration made under key: DefinitionBuilder::function, or
\* a collector with one member registered under key
KeyedEntry(key, place) ==
    CASE place = "function" -> Entry(NoDoc, key, Function(<<>>, <<>>))
      [] place = "class_field" ->
            Entry(NoDoc, "Foo",
                  Class([DefaultClass EXCEPT
                            !.fields = Insert(EmptyMap, key, PlainField)]))
      [] place = "class_static_field" ->
            Entry(NoDoc, "Foo",
                  Class([DefaultClass EXCEPT
                            !.static_fields = Insert(EmptyMap, key, PlainField)]))
      [] place = "class_function" ->
            Entry(NoDoc, "Foo",
                  Class([DefaultClass EXCEPT
                            !.functions =
                                Insert(EmptyMap, key, Func(<<>>, <<>>, NoDoc))]))
      [] place = "class_method" ->
            Entry(NoDoc, "Foo",
                  Class([DefaultClass EXCEPT
                            !.methods =
                                Insert(EmptyMap, key, Func(<<>>, <<>>, NoDoc))]))
      [] place = "module_field" ->
            Entry(NoDoc, "tools",
                  Module([DefaultModule EXCEPT
                            !.fields = Insert(EmptyMap, key, PlainField)]))
      [] place = "module_function" ->
            Entry(NoDoc, "tools",
                  Module([DefaultModule EXCEPT
                            !.functions =
                                Insert(EmptyMap, key, Func(<<>>, <<>>, NoDoc))]))
      [] place = "nested_module" ->
            Entry(NoDoc, "tools",
                  Module([DefaultModule EXCEPT
                            !.nested_modules =
                                Insert(EmptyMap, key, DefaultModule)]))

\* the one declaration of a definition
declare(key, place) == entries = <<>> /\ Push(KeyedEntry(key, place))

NextKeys ==
    \/ \E key \in KeyTexts, place \in Places : declare(key, place)
    \/ finish
    \/ OpenFile
    \/ WriteHeader
    \/ WriteEntry
    \/ WriteReturn

SpecKeys == InitGen /\ [][NextKeys]_vars

\* a key with a character outside [A-Za-z0-9_]
OutsideIdent(key) == \E i \in 1..Len(key) : Chars(key)[i] \notin IdentChars

Bracketed(key) == "[\"" \o key \o "\"]"

\* the line of the output that holds the key of a declaration, with the key
\* shown as given
KeyLine(place, shown) ==
    CASE place = "function" -> "function " \o shown \o "() end"
      [] place \in {"class_field", "class_static_field"} ->
            "--- @field " \o shown \o " string"
      [] place \in {"class_function", "module_function"} ->
            "  " \o shown \o " = function() end,"
      [] place = "class_method" -> "  " \o shown \o " = function(self) end,"
      [] place = "module_field" -> "  " \o shown \o " = nil,"
      [] place = "nested_module" -> "  " \o shown \o " = {},"

Lines(buf) == {buf[i] : i \in 1..Len(buf)}

\* C11: a key with a character outside [A-Za-z0-9_] is written in the
\* bracketed quoted form wherever it is declared
C11_KeysBracketed ==
    (gpc = "done" /\ result = "ok") =>
        \A key \in KeyTexts, place \in Places :
            (definition = <<KeyedEntry(key, place)>> /\ OutsideIdent(key))
                => KeyLine(place, Bracketed(key)) \in Lines(file)

Digits == {"0", "1", "2", "3", "4", "5", "6", "7", "8", "9"}

\* a key that is no identifier although all its characters are letters,
\* digits or '_': the empty key and a key that begins with a digit
NotAnIdentifier(key) == key = "" \/ SubSeq(key, 1, 1) \in Digits

\* C21: the empty key and a key that begins with a digit are written in the
\* bracketed quoted form wherever they are declared, never bare
C21_InvalidIdentifiersBracketed ==
    (gpc = "done" /\ result = "ok") =>
        \A key \in KeyTexts, place \in Places :
            (definition = <<KeyedEntry(key, place)>> /\ NotAnIdentifier(key))
                => /\ KeyLine(place, Bracketed(key)) \in Lines(file)
                   /\ KeyLine(place, key) \notin Lines(file)

(***************************************************************************)
(* Generation passes: DefinitionFileGenerator::iter yields one writer per  *)
(* definition group; the writers of a pass run entry by entry, in any      *)
(* interleaving.                                                           *)
(***************************************************************************)
\* calls of DefinitionFileGenerator::iter on one generator
MaxPasses == 2

\* Definition { entries } of the groups of the model
GroupEntries ==
    {<<>>,
     <<Entry(NoDoc, "Foo", Class(FooData))>>,
     <<Entry(NoDoc, "v", Value(Class(FooData)))>>,
     <<Entry(NoDoc, "v", Value(Class(FooData))),
       Entry(NoDoc, "Foo", Class(FooData))>>,
     <<Entry(NoDoc, "Color", Color), Entry(NoDoc, "c", Value(Color))>>,
     <<Entry(NoDoc, "c", Value(Color)), Entry(NoDoc, "t", Tuple(<<Color>>))>>}

\* Definitions: the (name, Definition) pairs of DefinitionsBuilder::define
DefinitionsChoices ==
    {<<[name |-> "init", entries |-> a], [name |-> "extra", entries |-> b]>> :
        a \in GroupEntries, b \in GroupEntries}

\* DefinitionFileGenerator::default().extension
DefaultExtension == ".d.lua"

InitPasses ==
    /\ IdleUnion /\ IdleClass /\ IdleGen /\ IdleModule /\ IdleLua
    /\ definitions \in DefinitionsChoices
    /\ pass = 0
    /\ it = 0
    /\ wr = [g \in 1..2 |-> None]
    /\ outs = <<>>

\* the name tables of the writers made so far
TablesOf(writers) ==
    {writers[g].name_map : g \in {g \in DOMAIN writers : writers[g] # None}}

RECURSIVE MergeTables(_)
MergeTables(tables) ==
    IF tables = {} THEN EmptyMap
    ELSE LET t == CHOOSE t \in tables : TRUE
         IN t @@ MergeTables(tables \ {t})

NewWriterKeepingTables(group, extension, writers) ==
    [file_name |-> group.name \o extension, at |-> "start", idx |-> 0,
     name_map |-> MergeTables(TablesOf(writers)), buf |-> EmptyBuffer,
     result |-> ""]

\* the item of DefinitionFileIter::next: the file name and a DefinitionWriter
\* with a name table of its own, whatever writers exist
NewWriter(group, extension, writers) ==
    [file_name |-> group.name \o extension, at |-> "start", idx |-> 0,
     name_map |-> EmptyMap, buf |-> EmptyBuffer, result |-> ""]

SharedTable(writers, g) == MergeTables(TablesOf(writers))

\* self.name_map of writer g
TableOf(writers, g) == writers[g].name_map

\* DefinitionFileGenerator::iter, called when the pass before it is over
Iter ==
    /\ pass < MaxPasses
    /\ Len(outs) = pass
    /\ pass' = pass + 1
    /\ it' = 0
    /\ UNCHANGED <<definitions, wr, outs, uvars, cvars, gvars, mvars, lvars>>

\* DefinitionFileIter::next
IterNext ==
    /\ pass > Len(outs)
    /\ it < Len(definitions)
    /\ it' = it + 1
    /\ wr' = [wr EXCEPT ![it + 1] =
                 NewWriter(definitions[it + 1], DefaultExtension, wr)]
    /\ UNCHANGED <<definitions, pass, outs, uvars, cvars, gvars, mvars, lvars>>

\* one step of DefinitionWriter::write of the writer of group g: the header,
\* one iteration of the loop, or the return after the last entry
WriterStep(g) ==
    /\ pass > Len(outs)
    /\ g <= it
    /\ wr[g].at # "done"
    /\ LET w == wr[g]
           group == definitions[g].entries
           r == write_entry([buf |-> w.buf, err |-> ""], TableOf(wr, g),
                            group[w.idx + 1])
       IN wr' = [wr EXCEPT ![g] =
                 CASE w.at = "start" ->
                        [w EXCEPT !.buf = WriteHeaderTo([buf |-> w.buf,
                                                         err |-> ""]).buf,
                                  !.at = "entries"]
                   [] w.at = "entries" /\ w.idx = Len(group) ->
                        [w EXCEPT !.result = "ok", !.at = "done"]
                   [] OTHER ->
                        IF r.st.err = ""
                        THEN [w EXCEPT !.buf = r.st.buf, !.name_map = r.table,
                                       !.idx = w.idx + 1]
                        ELSE [w EXCEPT !.buf = r.st.buf, !.name_map = r.table,
                                       !.result = r.st.err, !.at = "done"]]
    /\ UNCHANGED <<definitions, pass, it, outs, uvars, cvars, gvars, mvars, lvars>>

\* what a pass produced for a group
Output(w) == [file_name |-> w.file_name, buf |-> w.buf, result |-> w.result]

\* the end of a pass: every group was yielded and every writer returned
EndPass ==
    /\ pass > Len(outs)
    /\ it = Len(definitions)
    /\ \A g \in 1..it : wr[g].at = "done"
    /\ outs' = Append(outs, [g \in 1..it |-> Output(wr[g])])
    /\ UNCHANGED <<definitions, pass, it, wr, uvars, cvars, gvars, mvars, lvars>>

NextPasses ==
    \/ Iter
    \/ IterNext
    \/ \E g \in 1..2 : WriterStep(g)
    \/ EndPass

SpecPasses == InitPasses /\ [][NextPasses]_vars

\* C12: every pass over the same Definitions produces, group for group, the
\* same file name and the same output or error as the first pass, and no
\* step of a pass changes the Definitions
C12_PassesAgree ==
    [][/\ definitions' = definitions
       /\ \A p \in 1..Len(outs') : outs'[p] = outs'[1]
      ]_vars

\* two passes over a group that uses Foo before the group that registers it
C12_Witness ==
    /\ Len(outs) = 2
    /\ definitions[1].entries = <<Entry(NoDoc, "v", Value(Class(FooData)))>>
    /\ definitions[2].entries = <<Entry(NoDoc, "Foo", Class(FooData))>>
    /\ outs[2][1].result = MissingClass
    /\ outs[2][2].result = "ok"
    /\ outs[2][1].file_name = "init.d.lua"

\* C18: whatever the interleaving, a writer that has returned has produced
\* the output and the result of DefinitionWriter::write run alone on its group
C18_WritersIndependent ==
    \A g \in 1..it :
        (wr[g] # None /\ wr[g].at = "done") =>
            LET alone == write(FreshSink, definitions[g].entries)
            IN /\ wr[g].buf = alone.buf
               /\ wr[g].result = (IF alone.err = "" THEN "ok" ELSE alone.err)

\* the group that registers Foo has returned, and the reference to Foo of
\* the other group is unresolved
C18_Witness ==
    /\ pass = 1 /\ it = 2
    /\ definitions[1].entries = <<Entry(NoDoc, "Foo", Class(FooData))>>
    /\ definitions[2].entries = <<Entry(NoDoc, "v", Value(Class(FooData)))>>
    /\ wr[1].at = "done" /\ wr[1].result = "ok"
    /\ wr[2].at = "done" /\ wr[2].result = MissingClass

(***************************************************************************)
(* Properties of repeated registration on the class collector.             *)
(***************************************************************************)
\* a key registered with "first" queued, and "second" queued now
RegisteredThenQueued(map, k) ==
    /\ HasKey(cls[map], k)
    /\ cls[map][k].doc = Some(<<"first">>)
    /\ cls.queued_doc = Some(<<"second">>)

\* C13: registering a method, function, meta-method or meta-function under
\* a key already registered keeps what the first registration recorded: the
\* entry is documented "first" followed by "second"
C13_MethodsMerge ==
    [][\A k \in Keys :
        /\ (RegisteredThenQueued("methods", k) /\ add_method(k))
              => cls'.methods[k].doc = Some(<<"first", "second">>)
        /\ (RegisteredThenQueued("functions", k) /\ add_function(k))
              => cls'.functions[k].doc = Some(<<"first", "second">>)
        /\ (RegisteredThenQueued("meta_methods", k) /\ add_meta_method(k))
              => cls'.meta_methods[k].doc = Some(<<"first", "second">>)
        /\ (RegisteredThenQueued("meta_functions", k) /\ add_meta_function(k))
              => cls'.meta_functions[k].doc = Some(<<"first", "second">>)
      ]_vars

\* C25: registering a field key that is already present while nothing is
\* queued leaves the documentation of that field as it was
C25_DocumentationKept ==
    [][\A k \in Keys, v \in FieldTypes :
        /\ ( /\ HasKey(cls.static_fields, k)
             /\ cls.static_fields[k].doc # NoDoc
             /\ cls.queued_doc = NoDoc
             /\ (add_field(k, v) \/ add_field_function_get(k, v)
                    \/ add_field_function_set(k, v)
                    \/ add_field_function_get_set(k, v, v)) )
           => cls'.static_fields[k].doc = cls.static_fields[k].doc
        /\ ( /\ HasKey(cls.fields, k)
             /\ cls.fields[k].doc # NoDoc
             /\ cls.queued_doc = NoDoc
             /\ (add_field_method_get(k, v) \/ add_field_method_set(k, v)
                    \/ add_field_method_get_set(k, v, v)) )
           => cls'.fields[k].doc = cls.fields[k].doc
        /\ ( /\ HasKey(cls.meta_fields, k)
             /\ cls.meta_fields[k].doc # NoDoc
             /\ cls.queued_doc = NoDoc
             /\ add_meta_field(k, v) )
           => cls'.meta_fields[k].doc = cls.meta_fields[k].doc
      ]_vars

\* C29: a document call made while a text is queued keeps that text: the
\* queue then holds the earlier text followed by the new one, for the next
\* add_* call to attach
C29_QueueKeepsEveryText ==
    [][\A d \in Docs :
          (Document(d) /\ cls.queued_doc # NoDoc)
             => cls'.queued_doc = Some(cls.queued_doc[1] \o d)
      ]_vars

\* the collector when document is called in add_fields only
DocumentField(d) == phase = "add_fields" /\ Document(d)

NextFieldDocs ==
    \/ \E d \in Docs : DocumentField(d)
    \/ EndPhase
    \/ AnyFieldCall
    \/ AnyMethodCall

SpecFieldDocs == InitClass /\ [][NextFieldDocs]_vars

\* C28: when document is called in add_fields only, no method or function
\* registered in add_methods is documented
C28_NoDocumentationAcrossPhases ==
    \A map \in {"methods", "meta_methods", "functions", "meta_functions"} :
        \A k \in DOMAIN cls[map] : cls[map][k].doc = NoDoc

\* key is registered in map after the step, and the other six maps are as
\* before
OnlyInto(map, k) ==
    /\ HasKey(cls'[map], k)
    /\ \A other \in MemberMaps \ {map} : cls'[other] = cls[other]

\* C23: every add_* call of the class collector, plain or _with, registers
\* its key in the map of its own member kind and leaves the other six maps
\* as they were
C23_OwnMapOnly ==
    [][\A k \in Keys, g \in Generated, v \in FieldTypes :
        /\ (add_field(k, v) \/ add_field_function_get(k, v)
               \/ add_field_function_set(k, v)
               \/ add_field_function_get_set(k, v, v))
              => OnlyInto("static_fields", k)
        /\ (add_field_method_get(k, v) \/ add_field_method_set(k, v)
               \/ add_field_method_get_set(k, v, v))
              => OnlyInto("fields", k)
        /\ add_meta_field(k, v) => OnlyInto("meta_fields", k)
        /\ (add_method(k) \/ add_method_with(k, g)
               \/ add_method_mut(k) \/ add_method_mut_with(k, g))
              => OnlyInto("methods", k)
        /\ (add_function(k) \/ add_function_with(k, g)
               \/ add_function_mut(k) \/ add_function_mut_with(k, g))
              => OnlyInto("functions", k)
        /\ (add_meta_method(k) \/ add_meta_method_with(k, g)
               \/ add_meta_method_mut(k) \/ add_meta_method_mut_with(k, g))
              => OnlyInto("meta_methods", k)
        /\ (add_meta_function(k) \/ add_meta_function_with(k, g)
               \/ add_meta_function_mut(k) \/ add_meta_function_mut_with(k, g))
              => OnlyInto("meta_functions", k)
      ]_vars

(***************************************************************************)
(* Calls on the module collector: an add_fields that documents, adds       *)
(* fields and meta fields, and nests a module.                             *)
(***************************************************************************)
MaxProgram == 4

\* what the add_fields of the root module may call
CallChoices ==
    {DocumentCall(<<"first">>), DocumentCall(<<"second">>),
     AddFieldCall("add_field", "data", Single("string")),
     AddFieldCall("add_field", "data", Single("integer")),
     AddFieldCall("add_meta_field", "__count", Single("string")),
     AddFieldCall("add_meta_field", "__count", Single("integer")),
     AddModuleCall("N", "nested")}

InitCalls ==
    /\ IdleUnion /\ IdleClass /\ IdleGen /\ IdlePasses /\ IdleLua
    /\ \E program \in SeqsUpTo(CallChoices, MaxProgram) :
           nests = [ty \in {"M", "N"} |-> IF ty = "M" THEN program ELSE <<>>]
    /\ root = "M"
    /\ stack = <<>>
    /\ mpc = "start"
    /\ built = None
    /\ merr = ""

NextCalls ==
    \/ New
    \/ module_document
    \/ module_add_field
    \/ module_add_meta_field
    \/ AddModule
    \/ EndModule

SpecCalls == InitCalls /\ [][NextCalls]_vars

\* the builder of the running add_fields
Top == stack[Len(stack)].builder

\* C14: on the module collector, a field or meta field registered with
\* string and "first" queued, then again with integer and "second" queued,
\* is one field of shape string | integer documented "first" followed by
\* "second"
C14_ModuleFieldsMerge ==
    [][/\ ( /\ module_add_field
            /\ HasKey(Top.fields, NextCall.name)
            /\ Top.fields[NextCall.name]
                   = [ty |-> Single("string"), doc |-> Some(<<"first">>)]
            /\ Top.queued_doc = Some(<<"second">>)
            /\ NextCall.ty = Single("integer") )
          => stack'[Len(stack)].builder.fields[NextCall.name]
                = [ty |-> Union(<<Single("string"), Single("integer")>>),
                   doc |-> Some(<<"first", "second">>)]
       /\ ( /\ module_add_meta_field
            /\ HasKey(Top.meta_fields, NextCall.name)
            /\ Top.meta_fields[NextCall.name]
                   = [ty |-> Single("string"), doc |-> Some(<<"first">>)]
            /\ Top.queued_doc = Some(<<"second">>)
            /\ NextCall.ty = Single("integer") )
          => stack'[Len(stack)].builder.meta_fields[NextCall.name]
                = [ty |-> Union(<<Single("string"), Single("integer")>>),
                   doc |-> Some(<<"first", "second">>)]
      ]_vars

\* the call the add_fields of a frame made before the one it makes next, if
\* there was one
Previous(frame) ==
    LET n == Len(nests[frame.ty]) - Len(frame.todo)
    IN IF n = 0 THEN <<>> ELSE <<nests[frame.ty][n]>>

\* C15: document(d) directly followed by add_module(name) is consumed by
\* that call: when add_module returns, the module nested under name is
\* documented d and the queue of the calling collector is empty
C15_DocumentedNestedModule ==
    [][( /\ EndModule
         /\ Len(stack) > 1
         /\ Previous(stack[Len(stack) - 1]) # <<>>
         /\ Previous(stack[Len(stack) - 1])[1].op = "document" )
       => LET caller == stack'[Len(stack) - 1].builder
              call == Head(stack[Len(stack) - 1].todo)
          IN /\ caller.nested_modules[call.name].doc
                    = Some(Previous(stack[Len(stack) - 1])[1].doc)
             /\ caller.queued_doc = NoDoc
      ]_vars

(***************************************************************************)
(* Nesting of module types: every way of making at most MaxNestings        *)
(* add_module calls among four module types, built from the first of them. *)
(***************************************************************************)
MaxNestings == 4

NestingTypes == <<"A", "B", "C", "D">>

\* the i-th pair of a nesting type and a type it nests
Nesting(i) ==
    [from |-> NestingTypes[((i - 1) \div Len(NestingTypes)) + 1],
     to |-> NestingTypes[((i - 1) % Len(NestingTypes)) + 1]]

RECURSIVE NestingLists(_)
\* the lists of at most k pairs, each list in the order of the pairs
NestingLists(k) ==
    IF k = 0 THEN {<<>>}
    ELSE LET shorter == NestingLists(k - 1)
         IN shorter \cup
            {Append(l, i) :
                <<l, i>> \in
                    {<<l, i>> \in shorter \X (1..(Len(NestingTypes) * Len(NestingTypes))) :
                        /\ Len(l) = k - 1
                        /\ (l # <<>> => l[Len(l)] <= i)}}

\* the add_fields of every type for a list of pairs
NestingOf(l) ==
    [ty \in {NestingTypes[i] : i \in 1..Len(NestingTypes)} |->
        LET mine == SelectSeq(l, LAMBDA i : Nesting(i).from = ty)
        IN [j \in 1..Len(mine) |->
               AddModuleCall(Nesting(mine[j]).to, SiblingName(j))]]

InitNesting ==
    /\ IdleUnion /\ IdleClass /\ IdleGen /\ IdlePasses /\ IdleLua
    /\ \E l \in NestingLists(MaxNestings) : nests = NestingOf(l)
    /\ root = NestingTypes[1]
    /\ stack = <<>>
    /\ mpc = "start"
    /\ built = None
    /\ merr = ""

SpecNesting == InitNesting /\ [][NextModule]_vars

\* the module types of the add_fields that are running, outermost first
Path == [i \in 1..Len(stack) |-> stack[i].ty]

\* C20: add_module fails only for a type on the current nesting path, and
\* no call of add_module, failed, begun or returned, changes the parents of
\* a collector that was there before
C20_OnlyThePathIsRejected ==
    [][/\ (AddModule /\ mpc' = "failed") => Contains(Path, NextCall.ty)
       /\ (AddModule \/ (EndModule /\ Len(stack) > 1))
             => \A i \in 1..Len(stack') :
                   i <= Len(stack)
                      => stack'[i].builder.parents = stack[i].builder.parents
      ]_vars

\* the module nested under a list of keys
RECURSIVE ModuleAt(_, _)
ModuleAt(m, keys) ==
    IF keys = <<>> THEN m
    ELSE ModuleAt(m.nested_modules[Head(keys)], Tail(keys))

\* A nests B twice and C, B and C both nest D, and all of it was built
C20_Witness ==
    /\ mpc = "built"
    /\ nests["A"] = <<AddModuleCall("B", "n1"), AddModuleCall("B", "n2"),
                      AddModuleCall("C", "n3")>>
    /\ nests["B"] = <<AddModuleCall("D", "n1")>>
    /\ DOMAIN built.nested_modules = {"n1", "n2", "n3"}
    /\ ModuleAt(built, <<"n1", "n1">>).parents = <<"B", "D">>
    /\ ModuleAt(built, <<"n2", "n1">>).parents = <<"B", "D">>
    /\ built.parents = <<>>

(***************************************************************************)
(* Registration on the definition builder: types that are userdata and     *)
(* have a shape of their own.                                              *)
(***************************************************************************)
RegisteredTypes == {"Foo", "Color", "Example"}

\* T::ty(): written by hand for Foo, derived for the enum Color and for the
\* struct Example
ProjectionOf ==
    [Foo |-> TyOf["Foo"], Color |-> Color, Example |-> Single("Example")]

\* T::ty() of the types handed to register_enum
EnumCandidates ==
    {ProjectionOf[T] : T \in RegisteredTypes} \cup {Single("string")}

NextRegister ==
    \/ \E T \in RegisteredTypes : register(T)
    \/ \E T \in RegisteredTypes : register_with(T, Some(<<"first">>))
    \/ \E ty \in EnumCandidates : register_enum(ty)
    \/ \E ty \in EnumCandidates : register_enum_with(ty, Some(<<"first">>))
    \/ alias("Id", Single("string"))
    \/ value("v", Single("string"))
    \/ finish

SpecRegister == InitGen /\ [][NextRegister]_vars

\* entries after one entry of shape ty was appended to them
AppendedOne(ty) ==
    /\ gpc' = "building"
    /\ Len(entries') = Len(entries) + 1
    /\ SubSeq(entries', 1, Len(entries)) = entries
    /\ entries'[Len(entries')].ty = ty

\* C16: register_enum of a shape that is no Enum is an error that leaves no
\* builder to call and no entry; of an Enum it appends one entry named by
\* the enum and carrying its shape after the earlier entries, which stay
C16_EnumOrError ==
    [][/\ gpc # "rejected"
       /\ \A ty \in EnumCandidates :
             (register_enum(ty) \/ register_enum_with(ty, Some(<<"first">>)))
                => IF ty.tag = "Enum"
                   THEN /\ AppendedOne(ty)
                        /\ entries'[Len(entries')].name = ty.name
                   ELSE /\ gpc' = "rejected"
                        /\ entries' = entries
      ]_vars

\* an Enum was registered after another entry
C16_Witness ==
    /\ gpc = "building"
    /\ Len(entries) = 2
    /\ entries[1].ty.tag # "Enum"
    /\ entries[2] = Entry(NoDoc, "Color", Color)

\* the shape register would record if it went by the type's own shape
ByProjection(ty) == IF ty.tag \in {"Class", "Enum"} THEN ty ELSE Alias(ty)

MaxDocLines == 2

\* documentation texts as their lines, an empty line among them
DocTexts == SeqsUpTo({"a", ""}, MaxDocLines) \ {<<>>}

DocOptions == {NoDoc} \cup {Some(d) : d \in DocTexts}

\* declarations documented at the entry and at the type
TypePlaces == {"class", "module"}

\* declarations documented at the entry
EntryPlaces == {"value", "alias", "enum", "function"}

\* declarations documented at a member
MemberPlaces ==
    {"class_field", "class_static_field", "class_function", "class_method",
     "class_meta_field", "module_field", "module_function",
     "module_meta_field", "nested_module"}

\* the entry of a declaration with documentation doc, and type_doc on its
\* collector where it has one
DocumentedEntry(place, doc, type_doc) ==
    LET field == [ty |-> Single("string"), doc |-> doc]
        func == Func(<<>>, <<>>, doc)
    IN CASE place = "value" -> Entry(doc, "v", Value(Single("string")))
         [] place = "alias" -> Entry(doc, "Id", Alias(Single("string")))
         [] place = "enum" -> Entry(doc, "Color", Color)
         [] place = "function" -> Entry(doc, "greet", Function(<<>>, <<>>))
         [] place = "class" ->
               Entry(doc, "Foo", Class([DefaultClass EXCEPT !.type_doc = type_doc]))
         [] place = "module" ->
               Entry(doc, "tools", Module([ToolsModule EXCEPT !.doc = type_doc]))
         [] place = "class_field" ->
               Entry(NoDoc, "Foo",
                     Class([DefaultClass EXCEPT
                               !.fields = Insert(EmptyMap, "name", field)]))
         [] place = "class_static_field" ->
               Entry(NoDoc, "Foo",
                     Class([DefaultClass EXCEPT
                               !.static_fields = Insert(EmptyMap, "name", field)]))
         [] place = "class_meta_field" ->
               Entry(NoDoc, "Foo",
                     Class([DefaultClass EXCEPT
                               !.meta_fields = Insert(EmptyMap, "__name", field)]))
         [] place = "class_function" ->
               Entry(NoDoc, "Foo",
                     Class([DefaultClass EXCEPT
                               !.functions = Insert(EmptyMap, "name", func)]))
         [] place = "class_method" ->
               Entry(NoDoc, "Foo",
                     Class([DefaultClass EXCEPT
                               !.methods = Insert(EmptyMap, "name", func)]))
         [] place = "module_field" ->
               Entry(NoDoc, "tools",
                     Module([DefaultModule EXCEPT
                               !.fields = Insert(EmptyMap, "name", field)]))
         [] place = "module_meta_field" ->
               Entry(NoDoc, "tools",
                     Module([DefaultModule EXCEPT
                               !.meta_fields = Insert(EmptyMap, "__name", field)]))
         [] place = "module_function" ->
               Entry(NoDoc, "tools",
                     Module([DefaultModule EXCEPT
                               !.functions = Insert(EmptyMap, "name", func)]))
         [] place = "nested_module" ->
               Entry(NoDoc, "tools",
                     Module([DefaultModule EXCEPT
                               !.nested_modules =
                                   Insert(EmptyMap, "name",
                                          [DefaultModule EXCEPT !.doc = doc])]))

\* the one declaration of a definition
declare_documented(place, doc, type_doc) ==
    entries = <<>> /\ Push(DocumentedEntry(place, doc, type_doc))

NextDocs ==
    \/ \E place \in TypePlaces, doc \in DocOptions, type_doc \in DocOptions :
           declare_documented(place, doc, type_doc)
    \/ \E place \in EntryPlaces \cup MemberPlaces, doc \in DocOptions :
           declare_documented(place, doc, NoDoc)
    \/ finish
    \/ OpenFile
    \/ WriteHeader
    \/ WriteEntry
    \/ WriteReturn

SpecDocs == InitGen /\ [][NextDocs]_vars

\* a line of the output without its indentation
Unindented(line) ==
    LET n == CHOOSE n \in 0..Len(line) :
                 /\ \A i \in 1..n : SubSeq(line, i, i) = " "
                 /\ (n = Len(line) \/ SubSeq(line, n + 1, n + 1) # " ")
    IN SubSeq(line, n + 1, Len(line))

\* a comment line that is no annotation
IsDocLine(line) ==
    LET u == Unindented(line)
    IN /\ Len(u) >= Len("--- ")
       /\ SubSeq(u, 1, Len("--- ")) = "--- "
       /\ (Len(u) = Len("--- ") \/ SubSeq(u, Len("--- ") + 1, Len("--- ") + 1) # "@")

\* the line that follows the documentation of a declaration: its annotation,
\* or its statement where it has no annotation
Annotated(place) ==
    CASE place = "value" -> "--- @type string"
      [] place = "alias" -> "--- @alias Id string"
      [] place = "enum" -> "--- @alias Color \"red\""
      [] place = "function" -> "function greet() end"
      [] place = "class" -> "--- @class Foo"
      [] place = "module" -> "tools = {"
      [] place \in {"class_field", "class_static_field"} -> "--- @field name string"
      [] place \in {"class_function", "module_function"} -> "name = function() end,"
      [] place = "class_method" -> "--- @param self Foo"
      [] place \in {"class_meta_field", "module_field", "module_meta_field"} ->
            "--- @type string"
      [] place = "nested_module" -> "name = {},"

\* the lines of the texts that are present, in order
TextLines(docs) ==
    Concat([d \in 1..Len(docs) |-> IF docs[d] = NoDoc THEN <<>> ELSE docs[d][1]])

\* C19: the documentation of an entry or member is written as one comment
\* line per line of its text, "--- " followed by that line (after the
\* indentation of the member), in order and directly before the member's
\* annotation, entry-level text before type-level text, and no comment line
\* when there is no documentation
C19_DocLines ==
    (gpc = "done" /\ result = "ok") =>
        \A place \in TypePlaces \cup EntryPlaces \cup MemberPlaces :
            \A doc \in DocOptions :
                \A type_doc \in IF place \in TypePlaces THEN DocOptions ELSE {NoDoc} :
                    definition = <<DocumentedEntry(place, doc, type_doc)>>
                    => LET d == TextLines(<<doc, type_doc>>)
                           j == CHOOSE j \in 1..Len(file) :
                                    Unindented(file[j]) = Annotated(place)
                       IN /\ \E k \in 1..Len(file) :
                                Unindented(file[k]) = Annotated(place)
                          /\ j > Len(d) + 1
                          /\ \A i \in 1..Len(d) :
                                Unindented(file[j - Len(d) + i - 1]) = "--- " \o d[i]
                          /\ ~IsDocLine(file[j - Len(d) - 1])

\* a class documented at the entry with two lines, the second empty, and at
\* the type with one
C19_Witness ==
    /\ gpc = "done" /\ result = "ok"
    /\ definition = <<DocumentedEntry("class", Some(<<"a", "">>), Some(<<"a">>))>>
    /\ SubSeq(file, 3, 6) = <<"--- a", "--- ", "--- a", "--- @class Foo">>

(***************************************************************************)
(* The package table of a Lua state: package.path and package.cpath as the *)
(* LuaExtras calls read and set them.                                      *)
(***************************************************************************)
\* calls made on one Lua state
MaxPathCalls == 2

\* package.path and package.cpath of a new state
PathChoices == {"", " ", "./?.lua"}

CPathChoices == {"", "./?.so"}

\* path.as_ref().display().to_string() of the paths handed to the calls
PathArgs == {"examples/?.dll", "examples/?.lib"}

InitLua ==
    /\ IdleUnion /\ IdleClass /\ IdleGen /\ IdleModule /\ IdlePasses
    /\ package \in [path : PathChoices, cpath : CPathChoices]
    /\ path_calls = 0

\* str::trim
Trim(str) ==
    LET first == CHOOSE n \in 1..(Len(str) + 1) :
                     /\ \A i \in 1..(n - 1) : SubSeq(str, i, i) = " "
                     /\ (n = Len(str) + 1 \/ SubSeq(str, n, n) # " ")
        last == CHOOSE n \in 0..Len(str) :
                    /\ \A i \in (n + 1)..Len(str) : SubSeq(str, i, i) = " "
                    /\ (n = 0 \/ SubSeq(str, n, n) # " ")
    IN SubSeq(str, first, last)

\* self.path() and self.cpath()
path == package.path

cpath == package.cpath

\* the match on the trimmed old value of the prepend calls
Prepended(old, new) == IF Trim(old) = "" THEN new ELSE new \o ";" \o Trim(old)

\* the match on the trimmed old value of the append calls
Appended(old, new) == IF Trim(old) = "" THEN new ELSE Trim(old) \o ";" \o new

\* self.globals().get("package")?.set(key, text)
SetPackage(key, text) ==
    /\ path_calls < MaxPathCalls
    /\ path_calls' = path_calls + 1
    /\ package' = [package EXCEPT ![key] = text]
    /\ UNCHANGED <<uvars, cvars, gvars, mvars, pvars>>

set_path(p) == SetPackage("path", p)

prepend_path(p) == SetPackage("path", Prepended(path, p))

append_path(p) == SetPackage("path", Appended(path, p))

set_cpath(p) == SetPackage("cpath", p)

\* reads self.path()
prepend_cpath(p) == SetPackage("cpath", Prepended(path, p))

\* reads self.path()
append_cpath(p) == SetPackage("cpath", Appended(path, p))

NextLua ==
    \/ \E p \in PathArgs : set_path(p)
    \/ \E p \in PathArgs : prepend_path(p)
    \/ \E p \in PathArgs : append_path(p)
    \/ \E p \in PathArgs : set_cpath(p)
    \/ \E p \in PathArgs : prepend_cpath(p)
    \/ \E p \in PathArgs : append_cpath(p)

SpecLua == InitLua /\ [][NextLua]_vars

\* C22: append_cpath(p) sets package.cpath to the old package.cpath, ';'
\* and p (p alone when the old one is blank), prepend_cpath(p) to p, ';' and
\* the old package.cpath, and both leave package.path as it was
C22_CPathFromCPath ==
    [][\A p \in PathArgs :
          /\ append_cpath(p)
                => /\ package'.cpath
                        = IF Trim(package.cpath) = "" THEN p
                          ELSE package.cpath \o ";" \o p
                   /\ package'.path = package.path
          /\ prepend_cpath(p)
                => /\ package'.cpath
                        = IF Trim(package.cpath) = "" THEN p
                          ELSE p \o ";" \o package.cpath
                   /\ package'.path = package.path
      ]_vars

(***************************************************************************)
(* References to a class or an enum: one entry that holds the shape at a   *)
(* given position, with entries that register the shape before or after.   *)
(***************************************************************************)
\* the shapes referred to: a class and an enum
Referables == {Class(FooData), Color}

\* where in an entry the shape occurs
Positions ==
    {"value", "alias", "array", "map", "tuple", "union", "table",
     "class_field", "class_meta_field", "module_field",
     "function_param", "function_return", "method_param", "method_return",
     "module_function_param", "value_function_return",
     "value_function_param", "field_function_param"}

\* the positions that are parameters of a Function shape written as a
\* signature
SignatureParams == {"value_function_param", "field_function_param"}

\* an entry that holds shape X at a position
ReferringEntry(pos, X) ==
    LET field == [ty |-> X, doc |-> NoDoc]
        takes == Func(<<Param(NoDoc, NoDoc, X)>>, <<>>, NoDoc)
        gives == Func(<<>>, <<Return(NoDoc, X)>>, NoDoc)
    IN CASE pos = "value" -> Entry(NoDoc, "v", Value(X))
         [] pos = "alias" -> Entry(NoDoc, "Id", Alias(X))
         [] pos = "array" -> Entry(NoDoc, "v", Value(Array(X)))
         [] pos = "map" -> Entry(NoDoc, "v", Value(Map(Single("string"), X)))
         [] pos = "tuple" -> Entry(NoDoc, "v", Value(Tuple(<<Single("string"), X>>)))
         [] pos = "union" -> Entry(NoDoc, "v", Value(Union(<<Single("string"), X>>)))
         [] pos = "table" -> Entry(NoDoc, "v", Value(Table(<<<<"key", X>>>>)))
         [] pos = "class_field" ->
               Entry(NoDoc, "Bar",
                     Class([DefaultClass EXCEPT
                               !.fields = Insert(EmptyMap, "inner", field)]))
         [] pos = "class_meta_field" ->
               Entry(NoDoc, "Bar",
                     Class([DefaultClass EXCEPT
                               !.meta_fields = Insert(EmptyMap, "__inner", field)]))
         [] pos = "module_field" ->
               Entry(NoDoc, "tools",
                     Module([DefaultModule EXCEPT
                               !.fields = Insert(EmptyMap, "inner", field)]))
         [] pos = "function_param" ->
               Entry(NoDoc, "greet", Function(takes.params, <<>>))
         [] pos = "function_return" ->
               Entry(NoDoc, "greet", Function(<<>>, gives.returns))
         [] pos = "method_param" ->
               Entry(NoDoc, "Bar",
                     Class([DefaultClass EXCEPT
                               !.methods = Insert(EmptyMap, "greet", takes)]))
         [] pos = "method_return" ->
               Entry(NoDoc, "Bar",
                     Class([DefaultClass EXCEPT
                               !.methods = Insert(EmptyMap, "greet", gives)]))
         [] pos = "module_function_param" ->
               Entry(NoDoc, "tools",
                     Module([DefaultModule EXCEPT
                               !.functions = Insert(EmptyMap, "greet", takes)]))
         [] pos = "value_function_return" ->
               Entry(NoDoc, "v", Value(Function(<<>>, gives.returns)))
         [] pos = "value_function_param" ->
               Entry(NoDoc, "v", Value(Function(takes.params, <<>>)))
         [] pos = "field_function_param" ->
               Entry(NoDoc, "Bar",
                     Class([DefaultClass EXCEPT
                               !.fields =
                                   Insert(EmptyMap, "inner",
                                          [ty |-> Function(takes.params, <<>>),
                                           doc |-> NoDoc])]))

\* the entry is a registration of a shape referred to
Registers(e) == e.ty \in Referables

\* the one referring entry of a definition, pushed after registrations only
refer(pos, X) ==
    /\ \A i \in 1..Len(entries) : Registers(entries[i])
    /\ Push(ReferringEntry(pos, X))

NextRefs ==
    \/ \E pos \in Positions, X \in Referables : refer(pos, X)
    \/ register("Foo")
    \/ register_enum(Color)
    \/ finish
    \/ OpenFile
    \/ WriteHeader
    \/ WriteEntry
    \/ WriteReturn

SpecRefs == InitGen /\ [][NextRefs]_vars

\* the unresolved-reference error for a shape
Unresolved(X) == IF X.tag = "Class" THEN MissingClass ELSE MissingEnum

\* the writer is about to visit the entry that holds X at pos, and no
\* entry visited before registers X
VisitsUnregistered(pos, X) ==
    /\ gpc = "entries" /\ idx < Len(definition)
    /\ definition[idx + 1] = ReferringEntry(pos, X)
    /\ \A i \in 1..idx : definition[i].ty # X
    /\ WriteEntry

\* C24 as stated: a class or enum not visited as an earlier entry, at any
\* position of an entry, makes write fail with the unresolved-reference
\* error
C24_EveryPositionResolved ==
    [][\A pos \in Positions, X \in Referables :
          VisitsUnregistered(pos, X)
             => gpc' = "done" /\ result' = Unresolved(X)
      ]_vars

\* C24: a class or enum not visited as an earlier entry makes write fail
\* with the unresolved-reference error at every position except as the type
\* of a parameter of a Function shape written as a signature: fun(...) lists
\* the parameter names alone, and the writer goes on
C24_RenderedPositionsResolved ==
    [][\A pos \in Positions, X \in Referables :
          VisitsUnregistered(pos, X)
             => IF pos \in SignatureParams
                THEN gpc' = "entries" /\ idx' = idx + 1 /\ result' = result
                ELSE gpc' = "done" /\ result' = Unresolved(X) /\ idx' = idx
      ]_vars

\* an enum registered only after the entry whose method returns it
C24_Witness ==
    /\ gpc = "done" /\ result = MissingEnum /\ idx = 0
    /\ definition = <<ReferringEntry("method_return", Color),
                      Entry(NoDoc, "Color", Color)>>

(***************************************************************************)
(* Signature blocks: one function or method with given parameters and      *)
(* returns, written by the definition writer.                              *)
(***************************************************************************)
\* most parameters, and most returns, of a signature
MaxParams == 2

\* parameters with and without a name and with and without documentation
ParamChoices ==
    {Param(Some("who"), NoDoc, Single("string")),
     Param(NoDoc, NoDoc, Single("integer")),
     Param(NoDoc, Some(<<"the one">>), Single("string"))}

ReturnChoices ==
    {Return(NoDoc, Single("integer")), Return(Some(<<"the sum">>), Single("string"))}

\* where a signature is declared
SignaturePlaces ==
    {"function", "class_function", "class_method", "class_meta_method",
     "module_function", "module_method"}

\* the entry of a declaration of greet with the given parameters and returns
SignatureEntry(place, params, returns) ==
    LET member == Insert(EmptyMap, "greet", Func(params, returns, NoDoc))
    IN CASE place = "function" ->
               Entry(NoDoc, "greet", Function(params, returns))
         [] place = "class_function" ->
               Entry(NoDoc, "Foo", Class([DefaultClass EXCEPT !.functions = member]))
         [] place = "class_method" ->
               Entry(NoDoc, "Foo", Class([DefaultClass EXCEPT !.methods = member]))
         [] place = "class_meta_method" ->
               Entry(NoDoc, "Foo",
                     Class([DefaultClass EXCEPT !.meta_methods = member]))
         [] place = "module_function" ->
               Entry(NoDoc, "Foo", Module([DefaultModule EXCEPT !.functions = member]))
         [] place = "module_method" ->
               Entry(NoDoc, "Foo", Module([DefaultModule EXCEPT !.methods = member]))

\* the one declaration of a definition
declare_signature(place, params, returns) ==
    entries = <<>> /\ Push(SignatureEntry(place, params, returns))

NextSignatures ==
    \/ \E place \in SignaturePlaces,
          params \in SeqsUpTo(ParamChoices, MaxParams),
          returns \in SeqsUpTo(ReturnChoices, MaxParams) :
           declare_signature(place, params, returns)
    \/ finish
    \/ OpenFile
    \/ WriteHeader
    \/ WriteEntry
    \/ WriteReturn

SpecSignatures == InitGen /\ [][NextSignatures]_vars

StartsWith(line, prefix) ==
    Len(line) >= Len(prefix) /\ SubSeq(line, 1, Len(prefix)) = prefix

\* the function declared by the one entry of the definition
Declared ==
    LET e == definition[1]
    IN IF e.ty.tag = "Function"
       THEN [params |-> e.ty.params, returns |-> e.ty.returns,
             method |-> FALSE, member |-> FALSE]
       ELSE LET d == e.ty.data
                maps == IF e.ty.tag = "Class"
                        THEN <<d.functions, d.methods, d.meta_methods>>
                        ELSE <<d.functions, d.methods>>
                at == CHOOSE i \in 1..Len(maps) : HasKey(maps[i], "greet")
            IN [params |-> maps[at]["greet"].params,
                returns |-> maps[at]["greet"].returns,
                method |-> at > 1, member |-> TRUE]

\* the name of parameter i (from 1) in the source's zero-based numbering
ExpectedName(params, i) ==
    IF params[i].name = NoDoc THEN "param" \o ToString(i - 1)
    ELSE params[i].name[1]

IsSignatureLine(line) ==
    \/ StartsWith(Unindented(line), "--- @param")
    \/ StartsWith(Unindented(line), "--- @return")

\* line j of the file is the function line of greet and the lines before it
\* are its block, a method's self being of type owner
SignatureBlockAt(j, owner) ==
    LET f == Declared
        n == Len(f.params)
        m == Len(f.returns)
        s == IF f.method THEN 1 ELSE 0
        names == [i \in 1..n |-> ExpectedName(f.params, i)]
        listed == (IF f.method THEN <<"self">> ELSE <<>>) \o names
        first == j - m - n - s
    IN /\ first > 1
       /\ Unindented(file[j]) =
              (IF f.member THEN "greet = function" ELSE "function greet")
              \o "(" \o Join(listed, ", ") \o ") end"
              \o (IF f.member THEN "," ELSE "")
       /\ ~IsSignatureLine(file[first - 1])
       /\ f.method => Unindented(file[first]) = "--- @param self " \o owner
       /\ \A i \in 1..n :
              StartsWith(Unindented(file[first + s + i - 1]),
                         "--- @param " \o names[i] \o " "
                         \o f.params[i].ty.name \o " ")
       /\ \A i \in 1..m :
              StartsWith(Unindented(file[j - m + i - 1]),
                         "--- @return " \o f.returns[i].ty.name \o " ")

Written == gpc = "done" /\ result = "ok" /\ Len(definition) = 1

\* the statement as given: the self of every method is of the type named as
\* the entry that owns the method
C26_SelfIsTheOwner ==
    Written => \E j \in 1..Len(file) : SignatureBlockAt(j, definition[1].name)

\* the type of self: the class's name, and table for the method of a module
SelfType == IF definition[1].ty.tag = "Class" THEN definition[1].name ELSE "table"

\* C26: the signature block of a function with n parameters and m returns is
\* n @param lines in parameter order, m @return lines in return order and one
\* function line listing the n names in order; an unnamed parameter is
\* param{i}, i counted from 0, in both places; a method's block begins with
\* "@param self" of the class's name, or of table for a module's method, and
\* its list begins with self.
C26_SignatureBlock ==
    Written => \E j \in 1..Len(file) : SignatureBlockAt(j, SelfType)

\* a module's method with an unnamed second parameter and a return is written
C26_Witness ==
    /\ Written
    /\ definition[1].ty.tag = "Module"
    /\ Declared.method
    /\ Len(Declared.params) = 2
    /\ Declared.params[2].name = NoDoc
    /\ Len(Declared.returns) = 1
    /\ \E j \in 1..Len(file) : Unindented(file[j]) = "--- @param self table"

(***************************************************************************)
(* Entries of equal shape: one type registered under two names, and        *)
(* values of the type.                                                     *)
(***************************************************************************)
\* entries pushed on the builder of a group with entries of equal shape
MaxTwinEntries == 3

\* the shapes registered twice
TwinShapes == {ClassOf["Foo"], Color}

\* register::<Foo>() and register_with::<Foo>(doc) name one shape Foo and
\* app::Foo; register_enum::<Color>() and an entry pushed on the public list
\* name one shape Color and Shade
TwinEntries ==
    {Entry(NoDoc, "Foo", ClassOf["Foo"]),
     Entry(Some(<<"first">>), "app::Foo", ClassOf["Foo"]),
     Entry(NoDoc, "Color", Color),
     Entry(NoDoc, "Shade", Color),
     Entry(NoDoc, "v", Value(ClassOf["Foo"])),
     Entry(NoDoc, "v", Value(Color))}

\* self.entries.push(e), as Push
push_twin(e) ==
    /\ gpc = "building"
    /\ Len(entries) < MaxTwinEntries
    /\ entries' = Append(entries, e)
    /\ UNCHANGED <<gpc, definition, idx, name_map, file, result, uvars, cvars, mvars, pvars, lvars>>

NextTwins ==
    \/ \E e \in TwinEntries : push_twin(e)
    \/ finish
    \/ OpenFile
    \/ WriteHeader
    \/ WriteEntry
    \/ WriteReturn

SpecTwins == InitGen /\ [][NextTwins]_vars

\* the entries of shape X among the first k entries of the definition
VisitedAs(X, k) == {i \in 1..k : definition[i].ty = X}

\* the name of the last of them
LatestName(X, k) ==
    definition[CHOOSE i \in VisitedAs(X, k) : \A j \in VisitedAs(X, k) : j <= i].name

\* the name table is that of the entries visited so far
TableOfLatest ==
    gpc \in {"entries", "done"} =>
        \A X \in TwinShapes :
            IF VisitedAs(X, idx) = {} THEN X \notin DOMAIN name_map
            ELSE X \in DOMAIN name_map /\ name_map[X] = LatestName(X, idx)

\* every entry of a written definition is in the file under its own name
OwnNames ==
    (gpc = "done" /\ result = "ok") =>
        \A k \in 1..Len(definition) :
            LET e == definition[k]
            IN /\ e.ty.tag = "Class" =>
                   \E j \in 1..Len(file) : file[j] = "--- @class " \o e.name
               /\ e.ty.tag = "Enum" =>
                   \E j \in 1..Len(file) :
                       StartsWith(file[j], "--- @alias " \o e.name \o " ")

\* the write of a value whose shape was visited names the latest entry
ResolvesToLatest ==
    (/\ gpc = "entries"
     /\ idx < Len(definition)
     /\ definition[idx + 1].ty.tag = "Value"
     /\ VisitedAs(definition[idx + 1].ty.items[1], idx) # {})
    => /\ idx' = idx + 1
       /\ Len(file') = Len(file) + 3
       /\ file'[Len(file)] =
              "--- @type " \o LatestName(definition[idx + 1].ty.items[1], idx)
       /\ file'[Len(file) + 1] = definition[idx + 1].name \o " = nil"

\* C27: of two top-level Class (or Enum) entries of one group with equal
\* shapes and different names both are emitted under their own names, the
\* name table holds for the shape the name of the most recently visited of
\* them, and every later reference to the shape is written as that name.
C27_LatestNameWins ==
    /\ [](TableOfLatest /\ OwnNames)
    /\ [][ResolvesToLatest]_vars

\* Foo, then app::Foo of the same shape, then a value of the shape, written
\* as app::Foo, with both classes in the file
C27_Witness ==
    /\ gpc = "done" /\ result = "ok"
    /\ Len(definition) = 3
    /\ definition[1].ty = ClassOf["Foo"] /\ definition[1].name = "Foo"
    /\ definition[2].ty = ClassOf["Foo"] /\ definition[2].name = "app::Foo"
    /\ definition[3].ty = Value(ClassOf["Foo"])
    /\ \E j \in 1..Len(file) : file[j] = "--- @class Foo"
    /\ \E j \in 1..Len(file) : file[j] = "--- @class app::Foo"
    /\ \E j \in 1..Len(file) : file[j] = "--- @type app::Foo"
    /\ name_map[ClassOf["Foo"]] = "app::Foo"

(***************************************************************************)
(* Failing add_module calls: the error of a cycle handed on by the ? of    *)
(* every add_module on the way, one collector at a time.                   *)
(***************************************************************************)
\* calls made by the add_fields of the root module type
MaxUnwindCalls == 3

\* what the add_fields of M may call
UnwindChoices ==
    {DocumentCall(<<"first">>),
     AddFieldCall("add_field", "data", Single("string")),
     AddFieldCall("add_meta_field", "__count", Single("integer")),
     AddModuleCall("N", "nested"),
     AddModuleCall("M", "again")}

\* the add_fields of N
NestedPrograms ==
    {<<>>,
     <<AddModuleCall("M", "back")>>,
     <<AddFieldCall("add_field", "data", Single("integer")),
       AddModuleCall("N", "self")>>}

InitUnwind ==
    /\ IdleUnion /\ IdleClass /\ IdleGen /\ IdlePasses /\ IdleLua
    /\ \E program \in SeqsUpTo(UnwindChoices, MaxUnwindCalls),
          nested \in NestedPrograms :
           nests = [ty \in {"M", "N"} |-> IF ty = "M" THEN program ELSE nested]
    /\ root = "M"
    /\ stack = <<>>
    /\ mpc = "start"
    /\ built = None
    /\ merr = ""

\* V::add_fields(&mut nested)? in add_module, and M::add_fields(&mut builder)?
\* in new: the add_fields whose add_module call failed returns the error, its
\* builder is dropped, and the add_module (or new) that called it returns the
\* error before it inserts anything
Unwind ==
    /\ mpc = "failed"
    /\ stack' = SubSeq(stack, 1, Len(stack) - 1)
    /\ mpc' = IF Len(stack) = 1 THEN "returned" ELSE "failed"
    /\ UNCHANGED <<nests, root, built, merr, uvars, cvars, gvars, pvars, lvars>>

NextUnwind ==
    \/ New
    \/ module_document
    \/ module_add_field
    \/ module_add_meta_field
    \/ AddModule
    \/ Unwind
    \/ EndModule

SpecUnwind == InitUnwind /\ [][NextUnwind]_vars

\* C30: when add_module fails, by a cycle found at this level or by an error
\* handed on from a deeper nesting level, the calling collector is as before
\* the call: its nested modules, its field and function maps and its queued
\* documentation.  The collector at the top of the stack after a failing
\* step is the one whose add_module call has failed, and no collector
\* changes between its call of add_module and the return of that call.
C30_FailedAddModuleChangesNothing ==
    [][/\ mpc' = "failed" =>
              /\ stack' # <<>>
              /\ \A i \in 1..Len(stack') : stack'[i].builder = stack[i].builder
       /\ mpc = "running" =>
              \A i \in 1..Len(stack) :
                  i < Len(stack') => stack'[i].builder = stack[i].builder]_vars

\* the root collector, with a field registered and documentation queued,
\* receives from its add_module call the error of a cycle found two levels
\* deeper, and holds no nested module
C30_Witness ==
    /\ mpc = "failed"
    /\ merr = CyclicModule("N")
    /\ Len(stack) = 1
    /\ nests["M"] = <<AddFieldCall("add_field", "data", Single("string")),
                      DocumentCall(<<"first">>),
                      AddModuleCall("N", "nested")>>
    /\ stack[1].builder.queued_doc = Some(<<"first">>)
    /\ HasKey(stack[1].builder.fields, "data")
    /\ stack[1].builder.nested_modules = EmptyMap
====
